---- MODULE Spec2Model ----
(***************************************************************************)
(* Trade execution and pricing engine of the football prediction market:   *)
(* order placement and matching, immediate trades against the market       *)
(* probability, order cancellation, market resolution, deposits, the       *)
(* registration of users, their promotion to administrator and the         *)
(* creation of markets, over the tables of the Prisma schema (User,        *)
(* Market, Outcome, Order, Trade, UserOutcome, Transaction).               *)
(*                                                                         *)
(* The handlers compute on JavaScript numbers and the Decimal columns of   *)
(* the SQLite datasource hold what they are given, so every amount,        *)
(* price, quantity, balance and probability is an IEEE 754 double and      *)
(* every sum, difference, product and quotient is computed here bit for    *)
(* bit as the code computes it.                                            *)
(*                                                                         *)
(* A handler is a sequence of awaits: its reads come one by one through    *)
(* the plain client, its writes in one prisma.$transaction at the end.     *)
(* Requests of different callers interleave at the awaits.                 *)
(***************************************************************************)
EXTENDS Integers, Sequences, FiniteSets, Bags, TLC

\* The tables, the requests in flight, the last response sent and the fills
\* of the matching loops so far.
VARIABLES users, markets, outcomes, orders, trades, userOutcomes,
          transactions, response, fillLog, requests

\* ------------------------------------------------------------------------
\* Double precision
\* ------------------------------------------------------------------------
\* Every number of the code is a JavaScript number, an IEEE 754 double.  A
\* finite double is held as [neg, m, e] for the value m * 2^e, negated when
\* neg: m is a natural number of at most Mantissa bits and odd, so that a
\* double has one representation, e is at least MinExponent (the doubles
\* below 2^-1022 are the subnormal ones, with fewer bits), and m * 2^e is
\* less than 2^MaxExponent.  Zero is m = 0 with e = 0 and has a sign.
\* Infinity is 2^MaxExponent, the first power of two that is no double, and
\* NaN is the mantissa 0 at that exponent.  A natural number of any size is
\* the sequence of its limbs, least significant first and the most
\* significant one not zero.
LimbBits == 15
Base == 2 ^ LimbBits
Mantissa == 53
MinExponent == 0 - 1074
MaxExponent == 1024

RECURSIVE BigOf(_)
BigOf(n) == IF n = 0 THEN <<>> ELSE <<n % Base>> \o BigOf(n \div Base)

RECURSIVE Trim(_)
Trim(a) ==
  IF a = <<>> THEN a
  ELSE IF a[Len(a)] = 0 THEN Trim(SubSeq(a, 1, Len(a) - 1))
  ELSE a

BigAdd(a, b) ==
  LET Limb(x, i) == IF i <= Len(x) THEN x[i] ELSE 0
      RECURSIVE From(_, _)
      From(i, c) ==
        IF i > Len(a) /\ i > Len(b) THEN (IF c = 0 THEN <<>> ELSE <<c>>)
        ELSE <<(Limb(a, i) + Limb(b, i) + c) % Base>>
             \o From(i + 1, (Limb(a, i) + Limb(b, i) + c) \div Base)
  IN  From(1, 0)

\* a - b for a >= b.
BigSub(a, b) ==
  LET Limb(x, i) == IF i <= Len(x) THEN x[i] ELSE 0
      RECURSIVE From(_, _)
      From(i, c) ==
        IF i > Len(a) THEN <<>>
        ELSE <<(a[i] - Limb(b, i) - c + Base) % Base>>
             \o From(i + 1, IF a[i] - Limb(b, i) - c < 0 THEN 1 ELSE 0)
  IN  Trim(From(1, 0))

\* 1, 0 or -1 as a is greater than, equal to or less than b.
BigCmp(a, b) ==
  LET RECURSIVE From(_)
      From(i) ==
        IF i = 0 THEN 0
        ELSE IF a[i] > b[i] THEN 1
        ELSE IF a[i] < b[i] THEN 0 - 1
        ELSE From(i - 1)
  IN  IF Len(a) > Len(b) THEN 1
      ELSE IF Len(a) < Len(b) THEN 0 - 1
      ELSE From(Len(a))

BigMul(a, b) ==
  LET RECURSIVE Row(_, _, _)
      Row(d, i, c) ==
        IF i > Len(b) THEN <<c>>
        ELSE <<(b[i] * d + c) % Base>> \o Row(d, i + 1, (b[i] * d + c) \div Base)
      RECURSIVE Rows(_)
      Rows(i) ==
        IF i > Len(a) THEN <<>>
        ELSE BigAdd(Row(a[i], 1, 0), <<0>> \o Rows(i + 1))
  IN  Trim(Rows(1))

\* a * 2^k.
BigShl(a, k) ==
  LET RECURSIVE From(_, _)
      From(i, c) ==
        IF i > Len(a) THEN (IF c = 0 THEN <<>> ELSE <<c>>)
        ELSE <<(a[i] * 2 ^ (k % LimbBits) + c) % Base>>
             \o From(i + 1, (a[i] * 2 ^ (k % LimbBits) + c) \div Base)
  IN  IF a = <<>> THEN a
      ELSE [i \in 1..(k \div LimbBits) |-> 0] \o From(1, 0)

\* a divided by 2^k, rounded down.
BigShr(a, k) ==
  LET RECURSIVE From(_, _)
      From(i, r) ==
        IF i = k \div LimbBits THEN <<>>
        ELSE From(i - 1, (r * Base + a[i]) % (2 ^ (k % LimbBits)))
             \o <<(r * Base + a[i]) \div (2 ^ (k % LimbBits))>>
  IN  IF k \div LimbBits >= Len(a) THEN <<>> ELSE Trim(From(Len(a), 0))

\* The number of bits of a.
BitLen(a) ==
  LET RECURSIVE Bits(_)
      Bits(n) == IF n = 0 THEN 0 ELSE 1 + Bits(n \div 2)
  IN  IF a = <<>> THEN 0 ELSE LimbBits * (Len(a) - 1) + Bits(a[Len(a)])

Zero == [neg |-> FALSE, m |-> <<>>, e |-> 0]
Infinity == [neg |-> FALSE, m |-> <<1>>, e |-> MaxExponent]
NaN == [neg |-> FALSE, m |-> <<>>, e |-> MaxExponent]

\* Number.isNaN and Number.isFinite.
isNaN(x) == x.m = <<>> /\ x.e # 0
isFinite(x) == x.e < MaxExponent

\* x op y for op one of "+", "-", "*" and "/", correctly rounded: the
\* double nearest to the result, the one with the even mantissa when two
\* are as near, a zero when the result is nearer to zero than to the
\* smallest double and Infinity when it is 2^MaxExponent or more after
\* rounding.
Ieee754(x, op, y) ==
  LET \* The size of a result before it is rounded: M * 2^e, and a little
      \* more when sticky.
      Exact(M, e, sticky) == [M |-> M, e |-> e, sticky |-> sticky]
      \* The mantissas of x and y over the smaller exponent.
      low == IF x.e < y.e THEN x.e ELSE y.e
      X == BigShl(x.m, x.e - low)
      Y == BigShl(y.m, y.e - low)
      \* y, negated for a subtraction.
      negY == IF op = "-" THEN ~y.neg ELSE y.neg
      Sum == Exact(BigAdd(X, Y), low, FALSE)
      Difference ==
        IF BigCmp(X, Y) >= 0 THEN Exact(BigSub(X, Y), low, FALSE)
        ELSE Exact(BigSub(Y, X), low, FALSE)
      \* Long division by b, one limb of the quotient at a time: d.q is
      \* the quotient so far and d.r the remainder, r is d.r shifted by a
      \* limb and digit the number of times b goes into r.  The digit is
      \* estimated from the leading limbs of r and b, which never gives
      \* too little, and lowered until digit * b fits in r.
      Digits == 4
      QR(q, r) == [q |-> q, r |-> r]
      Stepped(d, b, r, digit) ==
        QR(BigAdd(BigShl(d.q, LimbBits), BigOf(digit)),
           BigSub(r, BigMul(BigOf(digit), b)))
      RECURSIVE Lowered(_, _, _)
      Lowered(r, b, digit) ==
        IF BigCmp(BigMul(BigOf(digit), b), r) <= 0 THEN digit
        ELSE Lowered(r, b, digit - 1)
      Limb(a, i) == IF i <= Len(a) THEN a[i] ELSE 0
      Estimate(r, b) ==
        (Limb(r, Len(b) + 1) * Base + Limb(r, Len(b))) \div b[Len(b)]
      Digit(r, b, estimate) ==
        Lowered(r, b, IF estimate < Base THEN estimate ELSE Base - 1)
      Shifted(d, b, r) == Stepped(d, b, r, Digit(r, b, Estimate(r, b)))
      DivStep(d, b) == Shifted(d, b, <<0>> \o d.r)
      RECURSIVE DivLoop(_, _, _)
      DivLoop(d, b, n) ==
        IF n = 0 THEN d
        ELSE IF d.r = <<>> THEN QR(BigShl(d.q, n * LimbBits), d.r)
        ELSE DivLoop(DivStep(d, b), b, n - 1)
      Divided(d, e) == Exact(d.q, e - Digits * LimbBits, d.r # <<>>)
      \* a / b * 2^e for a and b of the same number of bits: the quotient
      \* to more than Mantissa + 1 bits and whether a remainder is left.
      DivSame(a, b, e) ==
        IF BigCmp(a, b) >= 0
        THEN Divided(DivLoop(QR(<<1>>, BigSub(a, b)), b, Digits), e)
        ELSE Divided(DivLoop(QR(<<>>, a), b, Digits), e)
      \* x.m and y.m brought to the same number of bits, s being what
      \* y.m has more, and both shifted by t to fill the leading limb,
      \* which keeps the estimate of a digit within two of the digit.
      Quotient(s, t) ==
        IF s >= 0 THEN DivSame(BigShl(x.m, s + t), BigShl(y.m, t), x.e - y.e - s)
        ELSE DivSame(BigShl(x.m, t), BigShl(y.m, t - s), x.e - y.e - s)
      Filling(bits) == (LimbBits - (bits % LimbBits)) % LimbBits
      Aligned(bx, by) == Quotient(by - bx, Filling(IF bx > by THEN bx ELSE by))
      \* Division of a by the single limb b, from limb i of a down, r
      \* being what the limbs above have left.
      Joined(d, digit) == QR(d.q \o <<digit>>, d.r)
      RECURSIVE Short(_, _, _, _)
      Short(a, b, i, r) ==
        IF i = 0 THEN QR(<<>>, r)
        ELSE Joined(Short(a, b, i - 1, (r * Base + a[i]) % b),
                    (r * Base + a[i]) \div b)
      ShortDivided(d, e) == Exact(Trim(d.q), e, d.r # 0)
      ShortFrom(a, k) == ShortDivided(Short(a, y.m[1], Len(a), 0), x.e - y.e - k)
      ShortQuotient(k) == ShortFrom(BigShl(x.m, k), k)
      \* q * 2^e, or the next double when up (q1 is q + 1).
      Carried(q, q1, e, up) ==
        IF ~up THEN [m |-> q, e |-> e]
        ELSE IF BitLen(q1) > Mantissa THEN [m |-> BigShr(q1, 1), e |-> e + 1]
        ELSE [m |-> q1, e |-> e]
      \* r without its k low bits, q being the bits kept.  The bits
      \* dropped are more than one half when the highest of them is set
      \* and one below it is, or r is sticky, and one half when the
      \* highest alone is set: then the even one of q and q + 1 is taken.
      Bit(M, j) == (Limb(M, j \div LimbBits + 1) \div 2 ^ (j % LimbBits)) % 2
      Below(M, j) ==
        \/ \E i \in 1..(j \div LimbBits) : Limb(M, i) # 0
        \/ Limb(M, j \div LimbBits + 1) % 2 ^ (j % LimbBits) # 0
      Cut(r, k, q) ==
        Carried(q, BigAdd(q, <<1>>), r.e + k,
                /\ Bit(r.M, k - 1) = 1
                /\ (Below(r.M, k - 1) \/ r.sticky \/ Limb(q, 1) % 2 = 1))
      \* The number of low bits a result of that many bits at exponent e
      \* loses: what it has over Mantissa bits, and what lies below
      \* 2^MinExponent.
      Dropped(bits, e) ==
        IF bits - Mantissa > MinExponent - e THEN bits - Mantissa
        ELSE MinExponent - e
      Sized(r, k) ==
        IF k <= 0 THEN [m |-> r.M, e |-> r.e]
        ELSE Cut(r, k, BigShr(r.M, k))
      \* The same double with an odd mantissa, and its sign.
      RECURSIVE Zeros(_)
      Zeros(n) == IF n % 2 = 1 THEN 0 ELSE 1 + Zeros(n \div 2)
      RECURSIVE Odd(_, _)
      Odd(d, neg) ==
        IF d.m = <<>> THEN [neg |-> neg, m |-> <<>>, e |-> 0]
        ELSE IF d.m[1] % 2 = 1 THEN [neg |-> neg, m |-> d.m, e |-> d.e]
        ELSE IF d.m[1] = 0
        THEN Odd([m |-> Tail(d.m), e |-> d.e + LimbBits], neg)
        ELSE [neg |-> neg, m |-> BigShr(d.m, Zeros(d.m[1])),
              e |-> d.e + Zeros(d.m[1])]
      \* Infinity for what has grown out of the doubles.
      Ranged(d) ==
        IF d.e + BitLen(d.m) > MaxExponent THEN [Infinity EXCEPT !.neg = d.neg]
        ELSE d
      Round(r, neg) == Ranged(Odd(Sized(r, Dropped(BitLen(r.M), r.e)), neg))
      infinite(z) == z.e = MaxExponent
      zero(z) == z.m = <<>>
      \* Whether a, of no more than Mantissa bits, lies wholly below a
      \* quarter of the last bit b can have, so that b + a and b - a round
      \* to b.
      Beside(a, b) ==
        ~zero(a) /\ ~zero(b) /\ a.e + Mantissa < b.e - Mantissa - 2
      \* The result of finite operands, y not zero in a division, before
      \* it is rounded, and its sign; an exact zero has that of both
      \* operands when they agree and none otherwise.
      exact ==
        IF op = "*" THEN Exact(BigMul(x.m, y.m), x.e + y.e, FALSE)
        ELSE IF op = "/"
        THEN IF Len(y.m) = 1 THEN ShortQuotient(Mantissa + 2 + LimbBits)
             ELSE Aligned(BitLen(x.m), BitLen(y.m))
        ELSE IF x.neg = negY THEN Sum
        ELSE Difference
      sign ==
        IF op \in {"*", "/"} THEN x.neg # y.neg
        ELSE IF x.neg = negY THEN x.neg
        ELSE IF BigCmp(X, Y) > 0 THEN x.neg
        ELSE IF BigCmp(X, Y) < 0 THEN negY
        ELSE FALSE
  IN  IF isNaN(x) \/ isNaN(y) THEN NaN
      ELSE IF op = "*" /\ (infinite(x) \/ infinite(y))
      THEN IF zero(x) \/ zero(y) THEN NaN
           ELSE [Infinity EXCEPT !.neg = x.neg # y.neg]
      ELSE IF op = "/" /\ (infinite(x) \/ infinite(y) \/ zero(x) \/ zero(y))
      THEN IF (infinite(x) /\ infinite(y)) \/ (zero(x) /\ zero(y)) THEN NaN
           ELSE IF infinite(x) \/ zero(y)
           THEN [Infinity EXCEPT !.neg = x.neg # y.neg]
           ELSE [Zero EXCEPT !.neg = x.neg # y.neg]
      ELSE IF op \in {"+", "-"} /\ infinite(x) /\ infinite(y)
      THEN IF x.neg = negY THEN x ELSE NaN
      ELSE IF op \in {"+", "-"} /\ (infinite(x) \/ Beside(y, x)
                                    \/ (zero(y) /\ ~zero(x)))
      THEN x
      ELSE IF op \in {"+", "-"} /\ (infinite(y) \/ Beside(x, y)
                                    \/ (zero(x) /\ ~zero(y)))
      THEN [y EXCEPT !.neg = negY]
      ELSE Round(exact, sign)

\* The JavaScript engine evaluates a call: an arithmetic operation on two
\* numbers, or a handler from the await its request stands at.  The
\* handlers below do their arithmetic through it.
RECURSIVE Engine(_)

\* x op y as the engine computes it.
Fp(x, op, y) == Engine([call |-> "Fp", x |-> x, op |-> op, y |-> y])

\* The double of the integer n, which is n: no integer here has more than
\* Mantissa bits.
Number(n) ==
  LET RECURSIVE odd(_, _)
      odd(k, e) ==
        IF k % 2 = 1 THEN [neg |-> n < 0, m |-> BigOf(k), e |-> e]
        ELSE odd(k \div 2, e + 1)
  IN  IF n = 0 THEN Zero ELSE odd(IF n < 0 THEN 0 - n ELSE n, 0)

\* The number literal n/d of the source, d a power of ten: the double
\* nearest to it.
Decimal(n, d) == Fp(Number(n), "/", Number(d))

\* x < y and x <= y: both false when x or y is NaN, and the two zeros are
\* equal.
Less(x, y) ==
  LET negative(d) == d.neg /\ d.m # <<>>
  IN  negative(Fp(x, "-", y))
AtMost(x, y) == ~isNaN(x) /\ ~isNaN(y) /\ ~Less(y, x)

\* Math.abs.
Abs(x) == [x EXCEPT !.neg = FALSE]

\* -x.
Negated(x) == IF isNaN(x) THEN x ELSE [x EXCEPT !.neg = ~@]

\* parseFloat(x.toFixed(4)).  Of a number with no bits after the point
\* toFixed writes every digit, or from 10^21 as many as tell the number
\* from its neighbours, and of NaN and the infinities their names: what
\* parseFloat reads back as the number itself, zero without its sign.  Of
\* any other number toFixed takes the integer n for which n / 10^4 is
\* nearest to the size of x, the larger of two that are as near, and
\* parseFloat the double nearest to n / 10^4, with the sign of x.
toFixed4(x) ==
  LET n == IF x.e + BitLen(x.m) < 0 - LimbBits THEN <<>>
           ELSE BigShr(BigAdd(BigMul(x.m, BigOf(20000)),
                              BigShl(<<1>>, (0 - x.e))),
                       1 - x.e)
  IN  IF x.e >= 0 THEN (IF x.m = <<>> /\ x.e = 0 THEN Zero ELSE x)
      ELSE Fp([neg |-> x.neg, m |-> n, e |-> 0], "/", Number(10000))

\* ------------------------------------------------------------------------
\* Tables
\* ------------------------------------------------------------------------
\* The rows of the User, Market and Outcome tables, by id.  A user's id
\* stands for the user's email as well.
Users == DOMAIN users
Markets == DOMAIN markets
Outcomes == DOMAIN outcomes
NoId == "none"

\* The market of outcome o and the outcomes of market m.
MarketOf(o) == outcomes[o].marketId
OutcomesOf(m) == {o \in Outcomes : MarketOf(o) = m}

\* cuid(): the id of the n-th market and of the n-th outcome created.
MarketId(n) == "m" \o ToString(n)
OutcomeId(n) ==
  LET letters == <<"A", "B", "C", "D", "E", "F", "G", "H", "I", "J", "K",
                   "L", "M", "N", "O", "P", "Q", "R", "S", "T", "U", "V",
                   "W", "X", "Y", "Z">>
  IN  IF n <= Len(letters) THEN letters[n] ELSE "o" \o ToString(n)

\* The outcomes rows in the order findMany returns them when the query
\* has no orderBy: as created.  No row is ever deleted.
findMany(rows) == [i \in 1..Cardinality(DOMAIN rows) |-> OutcomeId(i)]

RegistrationBalance == 1000

One == Number(1)

tables == <<users, markets, outcomes, orders, trades, userOutcomes,
            transactions>>
vars == <<users, markets, outcomes, orders, trades, userOutcomes,
          transactions, response, fillLog, requests>>

NoHolding == [quantity |-> Zero, avgPrice |-> Number(0 - 1)]

\* The tables as one record: the value a Prisma client reads and writes.
\* failed is set when a transaction body throws.
DB == [users |-> users, markets |-> markets, outcomes |-> outcomes,
       orders |-> orders, trades |-> trades, userOutcomes |-> userOutcomes,
       transactions |-> transactions, failed |-> FALSE]

BagAdd(B, e) == B (+) SetToBag({e})

\* ------------------------------------------------------------------------
\* Requests.  A handler is an async function: between two awaits it runs
\* alone, at an await any other request may run.  A request is its body
\* (JSON and route parameters), the await it stands at (pc), the rows it
\* has read so far and, once it has answered, its status and error.  The
\* awaits modelled are the reads of the tables and prisma.$transaction,
\* whose body runs with no other write in between (the datasource is
\* SQLite); a request that has just arrived stands at getServerSession,
\* before its first read.
\* ------------------------------------------------------------------------
NoPrice == <<>>
NoError == ""

Request(kind, userId, marketId, outcomeId, id, type, positionType, orderType, isSharesMode, amount, inputPrice) ==
  [kind |-> kind, userId |-> userId, marketId |-> marketId,
   outcomeId |-> outcomeId, id |-> id, type |-> type,
   positionType |-> positionType, orderType |-> orderType,
   isSharesMode |-> isSharesMode, amount |-> amount,
   inputPrice |-> inputPrice, outcomes |-> 0,
   pc |-> "user",
   user |-> [balance |-> Zero, isAdmin |-> FALSE],
   market |-> [volume |-> Zero, isResolved |-> FALSE,
               resolvedOutcomeId |-> NoId],
   outcome |-> [marketId |-> NoId, probability |-> Zero,
                isResolved |-> FALSE],
   order |-> [userId |-> NoId, marketId |-> NoId, outcomeId |-> NoId,
              type |-> NoId, orderType |-> NoId, amount |-> Zero,
              price |-> Zero, filled |-> Zero, status |-> NoId],
   status |-> 0, error |-> NoError]

\* What a step of a handler leaves behind: the tables, the request at its
\* next await or answered, and the fills the step executed.
Step(db, q) == [db |-> db, q |-> q, fills |-> <<>>]

\* The handler goes on to its next await.
Await(db, q, pc) == Step(db, [q EXCEPT !.pc = pc])

\* The handler returns a response.
Reply(db, q, status, error) ==
  Step(db, [q EXCEPT !.pc = "done", !.status = status, !.error = error])

\* Whether every Decimal column holds a number: the client refuses to
\* write NaN or an infinity, and the call that tries throws.
storable(tx) ==
  /\ \A u \in DOMAIN tx.users : isFinite(tx.users[u].balance)
  /\ \A m \in DOMAIN tx.markets : isFinite(tx.markets[m].volume)
  /\ \A o \in DOMAIN tx.outcomes : isFinite(tx.outcomes[o].probability)
  /\ \A i \in 1..Len(tx.orders) :
       /\ isFinite(tx.orders[i].amount)
       /\ isFinite(tx.orders[i].price)
       /\ isFinite(tx.orders[i].filled)
  /\ \A t \in BagToSet(tx.trades) : isFinite(t.amount) /\ isFinite(t.price)
  /\ \A u \in DOMAIN tx.userOutcomes : \A o \in DOMAIN tx.userOutcomes[u] :
       /\ isFinite(tx.userOutcomes[u][o].quantity)
       /\ isFinite(tx.userOutcomes[u][o].avgPrice)
  /\ \A t \in BagToSet(tx.transactions) : isFinite(t.amount)

\* The answer once the transaction has run: tables unchanged and an error if
\* it threw, its result otherwise.
committed(tx, db, q, error) ==
  IF tx.failed \/ ~storable(tx) THEN Reply(db, q, 500, error)
  ELSE Reply(tx, q, 200, NoError)

\* ------------------------------------------------------------------------
\* Pricing
\* ------------------------------------------------------------------------
MinProbability == Decimal(1, 100)
MaxProbability == Decimal(99, 100)

\* Math.max(0.01, Math.min(0.99, newProbability)).
applyBounds(newProbability) ==
  IF Less(newProbability, MinProbability) THEN MinProbability
  ELSE IF Less(MaxProbability, newProbability) THEN MaxProbability
  ELSE newProbability

\* New probability of the traded outcome: impact, bounds, four decimals.
\* volume is the volume column as read; parseFloat(column.toString()) of a
\* column that holds a double is that double.
newProbabilityOf(currentProbability, volume, amount, type) ==
  LET marketVolume == IF volume.m = <<>> THEN One ELSE volume
      volumeRatio == Fp(amount, "/", marketVolume)
      impactFactor ==
        Fp(Fp(Decimal(1, 1000), "*", volumeRatio), "*", Number(100))
      effectiveIncrease ==
        Fp(impactFactor, "*", Fp(One, "-", currentProbability))
      effectiveDecrease == Fp(impactFactor, "*", currentProbability)
      newProbability ==
        IF type = "BUY" THEN Fp(currentProbability, "+", effectiveIncrease)
        ELSE Fp(currentProbability, "-", effectiveDecrease)
  IN  toFixed4(applyBounds(newProbability))

\* The siblings of the traded outcome rescaled to share 1 - newProbability,
\* each rounded to four decimals, and the traded outcome set to
\* newProbability.
redistribute(tx, marketId, outcomeId, newProbability) ==
  LET allOutcomes ==
        SelectSeq(findMany(tx.outcomes),
                  LAMBDA o : tx.outcomes[o].marketId = marketId)
      otherOutcomes == SelectSeq(allOutcomes, LAMBDA o : o # outcomeId)
      RECURSIVE reduce(_, _)
      reduce(i, sum) ==
        IF i > Len(otherOutcomes) THEN sum
        ELSE reduce(i + 1,
                    Fp(sum, "+", tx.outcomes[otherOutcomes[i]].probability))
      totalOtherProbability == reduce(1, Zero)
      scaleFactor ==
        Fp(Fp(One, "-", newProbability), "/", totalOtherProbability)
  IN  [tx EXCEPT !.outcomes =
         [o \in DOMAIN tx.outcomes |->
            IF o = outcomeId
            THEN [tx.outcomes[o] EXCEPT !.probability = newProbability]
            ELSE IF tx.outcomes[o].marketId = marketId
            THEN [tx.outcomes[o] EXCEPT !.probability =
                    toFixed4(Fp(tx.outcomes[o].probability, "*",
                                scaleFactor))]
            ELSE tx.outcomes[o]]]

\* The helper of the order path: it reads the outcome and the market inside
\* the transaction.
updateProbabilities(tx, marketId, outcomeId, amount, type) ==
  redistribute(tx, marketId, outcomeId,
               newProbabilityOf(tx.outcomes[outcomeId].probability,
                                tx.markets[marketId].volume, amount, type))

\* ------------------------------------------------------------------------
\* ExecuteTrade (trades POST)
\* ------------------------------------------------------------------------
\* The rows an executed trade writes: the trade, the holding, the balance,
\* the transaction and the market's volume.  The balance moves by
\* balanceChange, the transaction row carries transactionAmount.
recordTrade(tx, q, holding, balanceChange, transactionAmount) ==
  [tx EXCEPT
     !.trades = BagAdd(@, [userId |-> q.userId, marketId |-> q.marketId,
                           outcomeId |-> q.outcomeId, amount |-> q.amount,
                           price |-> q.outcome.probability,
                           type |-> q.type]),
     !.userOutcomes[q.userId][q.outcomeId] = holding,
     !.users[q.userId].balance = Fp(@, "+", balanceChange),
     !.transactions = BagAdd(@,
        [userId |-> q.userId, amount |-> transactionAmount,
         type |-> IF q.type = "SELL" THEN "TRADE_SELL" ELSE "TRADE_BUY"]),
     !.markets[q.marketId].volume = Fp(@, "+", q.amount)]

\* A holding grown by sharesPurchased bought for value.
boughtInto(tx, q, existingHolding, sharesPurchased, value, balanceChange) ==
  LET currentQuantity == existingHolding.quantity
      currentValue == Fp(currentQuantity, "*", existingHolding.avgPrice)
      newQuantity == Fp(currentQuantity, "+", sharesPurchased)
      newValue == Fp(currentValue, "+", value)
      newAvgPrice == Fp(newValue, "/", newQuantity)
  IN  recordTrade(tx, q,
                  [quantity |-> newQuantity, avgPrice |-> newAvgPrice],
                  balanceChange, Negated(q.amount))

buyShares(tx, q, existingHolding, sharesPurchased) ==
  IF existingHolding = NoHolding
  THEN recordTrade(tx, q,
                   [quantity |-> sharesPurchased,
                    avgPrice |-> q.outcome.probability],
                   Negated(q.amount), Negated(q.amount))
  ELSE boughtInto(tx, q, existingHolding, sharesPurchased, q.amount,
                  Negated(q.amount))

sellShares(tx, q, userHolding, sharesToSell, sellAmount) ==
  IF userHolding = NoHolding \/ Less(userHolding.quantity, sharesToSell)
  THEN [tx EXCEPT !.failed = TRUE]
  ELSE recordTrade(tx, q,
                   [userHolding EXCEPT
                      !.quantity = Fp(@, "-", sharesToSell)],
                   sellAmount, sellAmount)

\* The probability update that ends the transaction, from the market and
\* outcome rows read before the transaction started.
priceImpact(tx, q) ==
  IF tx.failed THEN tx
  ELSE redistribute(tx, q.marketId, q.outcomeId,
                    newProbabilityOf(q.outcome.probability, q.market.volume,
                                     q.amount, q.type))

\* The transaction body.
executeTradeTx(tx, q) ==
  LET outcomeProbabilityNum == q.outcome.probability
      userHolding == tx.userOutcomes[q.userId][q.outcomeId]
  IN  priceImpact(
        IF q.type = "BUY"
        THEN buyShares(tx, q, userHolding,
                       Fp(q.amount, "/", outcomeProbabilityNum))
        ELSE sellShares(tx, q, userHolding,
                        IF q.isSharesMode THEN q.amount
                        ELSE Fp(q.amount, "/", outcomeProbabilityNum),
                        IF q.isSharesMode
                        THEN Fp(q.amount, "*", outcomeProbabilityNum)
                        ELSE q.amount),
        q)

\* The checks both trade handlers make on the rows they read, one read at
\* a time, before the transaction.
tradeChecks(db, q) ==
  IF q.pc = "user"
  THEN IF q.userId \notin DOMAIN db.users
       THEN Reply(db, q, 404, "User not found")
       ELSE IF ~Less(Zero, q.amount)
       THEN Reply(db, q, 400, "Validation failed")
       ELSE Await(db, [q EXCEPT !.user = db.users[q.userId]], "market")
  ELSE IF q.pc = "market"
  THEN IF q.marketId \notin DOMAIN db.markets
       THEN Reply(db, q, 404, "Market not found")
       ELSE IF db.markets[q.marketId].isResolved
       THEN Reply(db, q, 400, "Cannot trade on a resolved market")
       ELSE Await(db, [q EXCEPT !.market = db.markets[q.marketId]],
                  "outcome")
  ELSE IF q.outcomeId \notin DOMAIN db.outcomes
          \/ db.outcomes[q.outcomeId].marketId # q.marketId
  THEN Reply(db, q, 400, "Invalid outcome ID")
  ELSE IF q.type = "BUY" /\ Less(q.user.balance, q.amount)
  THEN Reply(db, q, 400, "Insufficient balance")
  ELSE Await(db, [q EXCEPT !.outcome = db.outcomes[q.outcomeId]], "tx")

\* The handler at the await q stands at.
executeTrade(db, q) ==
  IF q.pc # "tx" THEN tradeChecks(db, q)
  ELSE committed(executeTradeTx(db, q), db, q,
                 "An error occurred while executing the trade")

\* ------------------------------------------------------------------------
\* ExecutePositionTrade (trades POST with a YES or NO position)
\* ------------------------------------------------------------------------
\* Whether a holding's average price is at least as near the NO price
\* as the YES price.
isProbablyNo(avgPrice, noSharePrice, outcomeProbabilityNum) ==
  AtMost(Abs(Fp(avgPrice, "-", noSharePrice)),
         Abs(Fp(avgPrice, "-", outcomeProbabilityNum)))

\* BUY NO: the holding is created, or grown when its average price marks
\* it as a NO position; a second row for the same user and outcome breaks
\* the unique index.
buyNoShares(tx, q, userHolding, noSharePrice, sharesPurchased, sellAmount) ==
  IF userHolding = NoHolding
  THEN recordTrade(tx, q,
                   [quantity |-> sharesPurchased, avgPrice |-> noSharePrice],
                   Negated(sellAmount), Negated(q.amount))
  ELSE IF isProbablyNo(userHolding.avgPrice, noSharePrice,
                       q.outcome.probability)
  THEN boughtInto(tx, q, userHolding, sharesPurchased, sellAmount,
                  Negated(sellAmount))
  ELSE [tx EXCEPT !.failed = TRUE]

\* SELL of a position: the row is deleted when the sale takes all of it.
sellPosition(tx, q, userHolding, sharesToSell, sellAmount) ==
  IF AtMost(userHolding.quantity, Zero)
     \/ Less(userHolding.quantity, sharesToSell)
  THEN [tx EXCEPT !.failed = TRUE]
  ELSE recordTrade(tx, q,
                   IF AtMost(userHolding.quantity, sharesToSell)
                   THEN NoHolding
                   ELSE [userHolding EXCEPT
                           !.quantity = Fp(@, "-", sharesToSell)],
                   sellAmount, sellAmount)

positionTradeTx(tx, q) ==
  LET outcomeProbabilityNum == q.outcome.probability
      noSharePrice == Fp(One, "-", outcomeProbabilityNum)
      sharePrice ==
        IF q.positionType = "NO" THEN noSharePrice
        ELSE outcomeProbabilityNum
      userHolding == tx.userOutcomes[q.userId][q.outcomeId]
      sharesToSell ==
        IF q.isSharesMode THEN q.amount ELSE Fp(q.amount, "/", sharePrice)
      sellAmount ==
        IF q.isSharesMode THEN Fp(q.amount, "*", sharePrice) ELSE q.amount
  IN  priceImpact(
        IF q.type = "BUY" /\ q.positionType = "YES"
        THEN buyShares(tx, q, userHolding,
                       Fp(q.amount, "/", outcomeProbabilityNum))
        ELSE IF q.type = "BUY"
        THEN buyNoShares(tx, q, userHolding, noSharePrice, sharesToSell,
                         sellAmount)
        ELSE IF userHolding = NoHolding
        THEN [tx EXCEPT !.failed = TRUE]
        ELSE IF q.positionType = "NO"
                /\ ~isProbablyNo(userHolding.avgPrice, noSharePrice,
                                 outcomeProbabilityNum)
        THEN [tx EXCEPT !.failed = TRUE]
        ELSE sellPosition(tx, q, userHolding, sharesToSell, sellAmount),
        q)

executePositionTrade(db, q) ==
  IF q.pc # "tx" THEN tradeChecks(db, q)
  ELSE committed(positionTradeTx(db, q), db, q,
                 "An error occurred while executing the trade")

\* ------------------------------------------------------------------------
\* Deposit (deposit POST)
\* ------------------------------------------------------------------------
MinDeposit == 10
MaxDeposit == 10000

depositTx(tx, q) ==
  [tx EXCEPT
     !.users[q.userId].balance = Fp(@, "+", q.amount),
     !.transactions = BagAdd(@,
        [userId |-> q.userId, amount |-> q.amount, type |-> "DEPOSIT"])]

\* After the transaction the handler reads the user again and answers with
\* the balance it finds.
deposit(db, q) ==
  IF q.pc = "user"
  THEN IF q.userId \notin DOMAIN db.users
       THEN Reply(db, q, 404, "User not found")
       ELSE IF ~Less(Zero, q.amount) \/ Less(q.amount, Number(MinDeposit))
               \/ Less(Number(MaxDeposit), q.amount)
       THEN Reply(db, q, 400, "Validation failed")
       ELSE Await(db, [q EXCEPT !.user = db.users[q.userId]], "tx")
  ELSE IF q.pc = "tx"
  THEN IF storable(depositTx(db, q))
       THEN Await(depositTx(db, q), q, "updatedUser")
       ELSE Reply(db, q, 500,
                  "An error occurred while processing your deposit")
  ELSE Reply(db, [q EXCEPT !.user = db.users[q.userId]], 200, NoError)

\* ------------------------------------------------------------------------
\* PlaceOrder (orders POST)
\* ------------------------------------------------------------------------
MinPrice == Decimal(1, 100)
MaxPrice == Decimal(99, 100)

\* Math.min.
Min(a, b) ==
  IF isNaN(a) \/ isNaN(b) THEN NaN
  ELSE IF Less(b, a) \/ (b.m = <<>> /\ a.m = <<>> /\ b.neg) THEN b
  ELSE a

updateHoldings(tx, userId, outcomeId, amount, price, type) ==
  LET existingHolding == tx.userOutcomes[userId][outcomeId]
      currentQuantity == existingHolding.quantity
      currentValue == Fp(currentQuantity, "*", existingHolding.avgPrice)
      newValue == Fp(currentValue, "+", Fp(amount, "*", price))
      newQuantity == Fp(currentQuantity, "+", amount)
  IN  IF tx.failed THEN tx
      ELSE IF type = "BUY"
      THEN IF existingHolding = NoHolding
           THEN [tx EXCEPT !.userOutcomes[userId][outcomeId] =
                   [quantity |-> amount, avgPrice |-> price]]
           ELSE [tx EXCEPT !.userOutcomes[userId][outcomeId] =
                   [quantity |-> newQuantity,
                    avgPrice |-> Fp(newValue, "/", newQuantity)]]
      ELSE IF existingHolding = NoHolding THEN [tx EXCEPT !.failed = TRUE]
      ELSE [tx EXCEPT !.userOutcomes[userId][outcomeId].quantity =
              Fp(@, "-", amount)]

\* The column holds amount * sign; a zero is written without its sign.
recordTransaction(tx, userId, amount, sign) ==
  IF tx.failed THEN tx
  ELSE [tx EXCEPT !.transactions = BagAdd(@,
          [userId |-> userId,
           amount |-> Fp(Fp(amount, "*", Number(sign)), "+", Zero),
           type |-> "TRADE"])]

Opposite(type) == IF type = "BUY" THEN "SELL" ELSE "BUY"

\* The orders the query of the matching selects.
oppositeOpen(db, q) ==
  {i \in 1..Len(db.orders) :
     /\ db.orders[i].marketId = q.marketId
     /\ db.orders[i].outcomeId = q.outcomeId
     /\ db.orders[i].type = Opposite(q.type)
     /\ db.orders[i].status = "OPEN"}

\* The arrangements of the set ids of orders.
Arrangements(ids) ==
  {s \in [1..Cardinality(ids) -> ids] :
     \A i, j \in 1..Cardinality(ids) : i # j => s[i] # s[j]}

\* MatchingOrders without the ordering by price.
MatchingOrdersAnyOrder(db, q) == Arrangements(oppositeOpen(db, q))

\* The results findMany can return for the opposite-side OPEN orders of the
\* outcome: every arrangement of them that is ordered by price (ascending
\* for an incoming BUY, descending for a SELL); rows of equal price come in
\* an order the query leaves open.
MatchingOrders(db, q) ==
  {s \in Arrangements(oppositeOpen(db, q)) :
     \A i \in 1..(Len(s) - 1) :
       IF q.type = "BUY"
       THEN AtMost(db.orders[s[i]].price, db.orders[s[i + 1]].price)
       ELSE AtMost(db.orders[s[i + 1]].price, db.orders[s[i]].price)}

\* updateBalances without the counterparty's leg.
updateBalancesUserOnly(tx, userId, counterparty, change) ==
  [tx EXCEPT !.users[userId].balance = Fp(@, "+", change)]

\* The cash leg of a fill: the incoming order's owner first, then the
\* owner of the matched order, who receives what the other pays.
updateBalances(tx, userId, counterparty, change) ==
  [[tx EXCEPT !.users[userId].balance = Fp(@, "+", change)]
       EXCEPT !.users[counterparty].balance = Fp(@, "-", change)]

\* The matched order's progress and the two trade rows of a fill.
recordFill(tx, id, matchingOrder, fillAmount, q) ==
  [tx EXCEPT
     !.orders[id].filled = Fp(@, "+", fillAmount),
     !.orders[id].status =
        IF AtMost(Fp(matchingOrder.amount, "-", matchingOrder.filled),
                  fillAmount)
        THEN "FILLED" ELSE "OPEN",
     !.trades = BagAdd(BagAdd(@,
        [userId |-> q.userId, marketId |-> q.marketId,
         outcomeId |-> q.outcomeId, amount |-> fillAmount,
         price |-> matchingOrder.price, type |-> q.type]),
        [userId |-> matchingOrder.userId, marketId |-> q.marketId,
         outcomeId |-> q.outcomeId, amount |-> fillAmount,
         price |-> matchingOrder.price, type |-> Opposite(q.type)])]

addVolume(tx, marketId, fillAmount) ==
  [tx EXCEPT !.markets[marketId].volume = Fp(@, "+", fillAmount)]

\* updateProbabilities as the last call of an iteration.
priceFill(tx, q, fillAmount) ==
  IF tx.failed THEN tx
  ELSE updateProbabilities(tx, q.marketId, q.outcomeId, fillAmount, q.type)

\* The writes of one iteration, in the order the loop makes them: order and
\* trades, both holdings, both balances, both transactions, volume,
\* probabilities.  cost is fillAmount * tradePrice.
settleFill(tx, id, matchingOrder, fillAmount, cost, q) ==
  priceFill(
    addVolume(
      recordTransaction(
        recordTransaction(
          updateBalances(
            updateHoldings(
              updateHoldings(
                recordFill(tx, id, matchingOrder, fillAmount, q),
                q.userId, q.outcomeId, fillAmount, matchingOrder.price,
                q.type),
              matchingOrder.userId, q.outcomeId, fillAmount,
              matchingOrder.price, Opposite(q.type)),
            q.userId, matchingOrder.userId,
            IF q.type = "BUY" THEN Negated(cost) ELSE cost),
          q.userId, cost, IF q.type = "BUY" THEN 0 - 1 ELSE 1),
        matchingOrder.userId, cost, IF q.type = "BUY" THEN 1 ELSE 0 - 1),
      q.marketId, fillAmount),
    q, fillAmount)

\* The loop's counters after an iteration that left the tables as tx, and
\* the record of what the iteration moved.
logFill(st, tx, id, matchingOrder, fillAmount, cost, q) ==
  [tx |-> tx,
   remainingAmount |-> Fp(st.remainingAmount, "-", fillAmount),
   filledAmount |-> Fp(st.filledAmount, "+", fillAmount),
   fills |-> Append(st.fills,
      [orderId |-> id,
       buyer |-> IF q.type = "BUY" THEN q.userId ELSE matchingOrder.userId,
       seller |-> IF q.type = "BUY" THEN matchingOrder.userId ELSE q.userId,
       fillAmount |-> fillAmount, tradePrice |-> matchingOrder.price,
       cost |-> cost,
       remaining |-> st.remainingAmount,
       before |-> [u \in DOMAIN tx.users |-> st.tx.users[u].balance],
       after |-> [u \in DOMAIN tx.users |-> tx.users[u].balance],
       volume |-> st.tx.markets[q.marketId].volume,
       probability |-> st.tx.outcomes[q.outcomeId].probability,
       outcomes |-> tx.outcomes])]

\* One iteration of the matching loop, for the resting order id as read by
\* findMany (snapshot) before the loop started.
fillOrder(st, id, snapshot, q) ==
  LET matchingOrder == snapshot[id]
      availableInMatchingOrder ==
        Fp(matchingOrder.amount, "-", matchingOrder.filled)
      fillAmount == Min(st.remainingAmount, availableInMatchingOrder)
      cost == Fp(fillAmount, "*", matchingOrder.price)
  IN  IF st.tx.failed \/ AtMost(st.remainingAmount, Zero)
         \/ AtMost(availableInMatchingOrder, Zero)
      THEN st
      ELSE logFill(st,
                   settleFill(st.tx, id, matchingOrder, fillAmount, cost, q),
                   id, matchingOrder, fillAmount, cost, q)

RECURSIVE matchLoop(_, _, _, _, _)
matchLoop(st, matchingOrders, i, snapshot, q) ==
  IF i > Len(matchingOrders) THEN st
  ELSE matchLoop(fillOrder(st, matchingOrders[i], snapshot, q),
                 matchingOrders, i + 1, snapshot, q)

\* The incoming order's own row once the loop is over.
closeOrder(st, id, amount) ==
  [tx |-> [st.tx EXCEPT
             !.orders[id].filled = st.filledAmount,
             !.orders[id].status =
                IF AtMost(amount, st.filledAmount) THEN "FILLED"
                ELSE "OPEN"],
   fills |-> st.fills]

\* A LIMIT BUY takes amount from the balance when it is placed.
reserve(tx, userId, amount) ==
  [tx |-> [tx EXCEPT
             !.users[userId].balance = Fp(@, "-", amount),
             !.transactions = BagAdd(@,
                [userId |-> userId, amount |-> Negated(amount),
                 type |-> "ORDER_RESERVE"])],
   fills |-> <<>>]

\* afterCreate with the matching run for LIMIT orders as well.
afterCreateMatching(tx, id, q, matchingOrders) ==
  closeOrder(matchLoop([tx |-> tx, remainingAmount |-> q.amount,
                        filledAmount |-> Zero, fills |-> <<>>],
                       matchingOrders, 1, tx.orders, q),
             id, q.amount)

\* What follows the creation of the order (tx already holds its row id):
\* match (MARKET) or reserve (LIMIT).
afterCreate(tx, id, q, matchingOrders) ==
  IF q.orderType = "MARKET"
  THEN closeOrder(matchLoop([tx |-> tx, remainingAmount |-> q.amount,
                             filledAmount |-> Zero, fills |-> <<>>],
                            matchingOrders, 1, tx.orders, q),
                  id, q.amount)
  ELSE IF q.type = "BUY" THEN reserve(tx, q.userId, q.amount)
  ELSE [tx |-> tx, fills |-> <<>>]

\* The transaction body: create the order, then match or reserve.  A MARKET
\* order is priced at the probability read before the transaction.
placeOrderTx(tx, q, matchingOrders) ==
  afterCreate([tx EXCEPT !.orders = Append(@,
                 [userId |-> q.userId, marketId |-> q.marketId,
                  outcomeId |-> q.outcomeId, type |-> q.type,
                  orderType |-> q.orderType, amount |-> q.amount,
                  price |-> IF q.orderType = "MARKET"
                            THEN q.outcome.probability
                            ELSE q.inputPrice[1],
                  filled |-> Zero, status |-> "OPEN"])],
              Len(tx.orders) + 1, q, matchingOrders)

\* created without the rollback: a transaction that threw keeps what it
\* had written.
createdPartial(r, db, q) ==
  IF r.tx.failed \/ ~storable(r.tx)
  THEN Reply(r.tx, q, 500, "An error occurred while creating the order")
  ELSE [Reply(r.tx, q, 200, NoError) EXCEPT !.fills = r.fills]

\* The answer once the transaction has run, with the fills it made.
created(r, db, q) ==
  IF r.tx.failed \/ ~storable(r.tx)
  THEN Reply(db, q, 500, "An error occurred while creating the order")
  ELSE [Reply(r.tx, q, 200, NoError) EXCEPT !.fills = r.fills]

\* The body as the validation schema takes it: a positive amount and, when
\* a price is given, one in [0.01, 0.99].
orderSchema(q) ==
  /\ Less(Zero, q.amount)
  /\ q.inputPrice # NoPrice =>
       /\ AtMost(MinPrice, q.inputPrice[1])
       /\ AtMost(q.inputPrice[1], MaxPrice)

\* The checks on the rows read before the transaction, one read at a time;
\* a SELL reads the holding as well.
orderChecks(db, q) ==
  IF q.pc = "user"
  THEN IF q.userId \notin DOMAIN db.users
       THEN Reply(db, q, 404, "User not found")
       ELSE IF ~orderSchema(q) THEN Reply(db, q, 400, "Validation failed")
       ELSE Await(db, [q EXCEPT !.user = db.users[q.userId]], "market")
  ELSE IF q.pc = "market"
  THEN IF q.marketId \notin DOMAIN db.markets
       THEN Reply(db, q, 404, "Market not found")
       ELSE IF db.markets[q.marketId].isResolved
       THEN Reply(db, q, 400, "Cannot place orders on a resolved market")
       ELSE Await(db, [q EXCEPT !.market = db.markets[q.marketId]],
                  "outcome")
  ELSE IF q.pc = "outcome"
  THEN IF q.outcomeId \notin DOMAIN db.outcomes
          \/ db.outcomes[q.outcomeId].marketId # q.marketId
       THEN Reply(db, q, 400, "Invalid outcome ID")
       ELSE IF q.orderType = "LIMIT" /\ q.inputPrice = NoPrice
       THEN Reply(db, q, 400, "Price is required for limit orders")
       ELSE IF q.type = "BUY" /\ Less(q.user.balance, q.amount)
       THEN Reply(db, q, 400, "Insufficient balance")
       ELSE Await(db, [q EXCEPT !.outcome = db.outcomes[q.outcomeId]],
                  IF q.type = "SELL" THEN "holding" ELSE "tx")
  ELSE IF db.userOutcomes[q.userId][q.outcomeId] = NoHolding
          \/ Less(db.userOutcomes[q.userId][q.outcomeId].quantity, q.amount)
  THEN Reply(db, q, 400, "Insufficient shares to sell")
  ELSE Await(db, q, "tx")

placeOrder(db, q, matchingOrders) ==
  IF q.pc # "tx" THEN orderChecks(db, q)
  ELSE created(placeOrderTx(db, q, matchingOrders), db, q)

\* ------------------------------------------------------------------------
\* CancelOrder (orders/[id] DELETE)
\* ------------------------------------------------------------------------
\* The transaction: the status is written whatever it is by now, the refund
\* is computed from the order row read before and credited to the caller.
cancelOrderTx(tx, q) ==
  LET remainingAmount == Fp(q.order.amount, "-", q.order.filled)
      refundAmount == remainingAmount
      cancelledOrder == [tx EXCEPT !.orders[q.id].status = "CANCELLED"]
  IN  IF q.order.type = "BUY" /\ Less(Zero, remainingAmount)
      THEN [cancelledOrder EXCEPT
              !.users[q.userId].balance = Fp(@, "+", refundAmount),
              !.transactions = BagAdd(@,
                 [userId |-> q.userId, amount |-> refundAmount,
                  type |-> "ORDER_CANCEL_REFUND"])]
      ELSE cancelledOrder

\* orderChecked without the check of the order's status.
orderCheckedAnyStatus(db, q, order) ==
  IF order.userId # q.userId /\ ~q.user.isAdmin
  THEN Reply(db, q, 403, "Unauthorized")
  ELSE IF db.markets[order.marketId].isResolved
  THEN Reply(db, q, 400, "Cannot cancel orders on resolved markets")
  ELSE Await(db, [q EXCEPT !.order = order], "tx")

\* The checks on the order read together with its market.
orderChecked(db, q, order) ==
  IF order.userId # q.userId /\ ~q.user.isAdmin
  THEN Reply(db, q, 403, "Unauthorized")
  ELSE IF order.status # "OPEN"
  THEN Reply(db, q, 400, "Only open orders can be cancelled")
  ELSE IF db.markets[order.marketId].isResolved
  THEN Reply(db, q, 400, "Cannot cancel orders on resolved markets")
  ELSE Await(db, [q EXCEPT !.order = order], "tx")

cancelOrder(db, q) ==
  IF q.pc = "user"
  THEN IF q.userId \notin DOMAIN db.users
       THEN Reply(db, q, 404, "User not found")
       ELSE Await(db, [q EXCEPT !.user = db.users[q.userId]], "order")
  ELSE IF q.pc = "order"
  THEN IF q.id \notin 1..Len(db.orders)
       THEN Reply(db, q, 404, "Order not found")
       ELSE orderChecked(db, q, db.orders[q.id])
  ELSE committed(cancelOrderTx(db, q), db, q,
                 "An error occurred while cancelling the order")

\* ------------------------------------------------------------------------
\* ResolveMarket (markets/[id] PATCH)
\* ------------------------------------------------------------------------
\* The holdings in the order of their outcomes and users.
holdingKeys(tx) ==
  LET RECURSIVE keys(_, _)
      keys(ids, i) ==
        IF i > Len(findMany(tx.outcomes)) THEN <<>>
        ELSE IF ids = {} THEN keys(DOMAIN tx.users, i + 1)
        ELSE LET userId == CHOOSE u \in ids : TRUE
             IN  <<[userId |-> userId,
                    outcomeId |-> findMany(tx.outcomes)[i]]>>
                 \o keys(ids \ {userId}, i)
  IN  keys(DOMAIN tx.users, 1)

\* Payout of one holding and the clearing of its quantity.
settleHolding(tx, holding, resolvedOutcomeId) ==
  LET quantity == tx.userOutcomes[holding.userId][holding.outcomeId].quantity
      paid == IF holding.outcomeId = resolvedOutcomeId
              THEN [tx EXCEPT
                      !.users[holding.userId].balance = Fp(@, "+", quantity),
                      !.transactions = BagAdd(@,
                         [userId |-> holding.userId, amount |-> quantity,
                          type |-> "MARKET_RESOLUTION_PAYOUT"])]
              ELSE tx
  IN  [paid EXCEPT
         !.userOutcomes[holding.userId][holding.outcomeId].quantity = Zero]

RECURSIVE settleHoldings(_, _, _, _)
settleHoldings(tx, userHoldings, i, resolvedOutcomeId) ==
  IF i > Len(userHoldings) THEN tx
  ELSE settleHoldings(settleHolding(tx, userHoldings[i], resolvedOutcomeId),
                      userHoldings, i + 1, resolvedOutcomeId)

\* Refund and cancellation of one open order.
cancelOpenOrder(tx, id) ==
  LET order == tx.orders[id]
      remainingAmount == Fp(order.amount, "-", order.filled)
      refundAmount == remainingAmount
      refunded == IF order.type = "BUY" /\ Less(Zero, remainingAmount)
                  THEN [tx EXCEPT
                          !.users[order.userId].balance =
                             Fp(@, "+", refundAmount),
                          !.transactions = BagAdd(@,
                             [userId |-> order.userId,
                              amount |-> refundAmount,
                              type |-> "ORDER_REFUND"])]
                  ELSE tx
  IN  [refunded EXCEPT !.orders[id].status = "CANCELLED"]

\* The open orders in the order findMany returned them.
RECURSIVE cancelOpenOrders(_, _, _)
cancelOpenOrders(tx, openOrders, i) ==
  IF i > Len(openOrders) THEN tx
  ELSE cancelOpenOrders(cancelOpenOrder(tx, openOrders[i]), openOrders,
                        i + 1)

resolveMarketTx(tx, q) ==
  LET id == q.marketId
      resolvedOutcomeId == q.outcomeId
      t1 == [tx EXCEPT !.markets[id].isResolved = TRUE,
                       !.markets[id].resolvedOutcomeId = resolvedOutcomeId,
                       !.outcomes[resolvedOutcomeId].isResolved = TRUE]
      userHoldings ==
        SelectSeq(holdingKeys(t1), LAMBDA h :
          /\ t1.userOutcomes[h.userId][h.outcomeId] # NoHolding
          /\ t1.outcomes[h.outcomeId].marketId = id
          /\ Less(Zero, t1.userOutcomes[h.userId][h.outcomeId].quantity))
      t2 == settleHoldings(t1, userHoldings, 1, resolvedOutcomeId)
      ids == [i \in 1..Len(t2.orders) |-> i]
      openOrders ==
        SelectSeq(ids, LAMBDA i : /\ t2.orders[i].marketId = id
                                  /\ t2.orders[i].status = "OPEN")
  IN  cancelOpenOrders(t2, openOrders, 1)

\* marketChecked without the check that the caller is an administrator.
marketCheckedByAnyone(db, q, market) ==
  IF market.isResolved
  THEN Reply(db, q, 400, "This market is already resolved")
  ELSE IF q.outcomeId = NoId
  THEN Reply(db, q, 400, "Resolved outcome ID is required")
  ELSE Await(db, [q EXCEPT !.market = market], "outcome")

\* The checks on the market read and on the body.
marketChecked(db, q, market) ==
  IF ~q.user.isAdmin
  THEN Reply(db, q, 403, "Only administrators can resolve markets")
  ELSE IF market.isResolved
  THEN Reply(db, q, 400, "This market is already resolved")
  ELSE IF q.outcomeId = NoId
  THEN Reply(db, q, 400, "Resolved outcome ID is required")
  ELSE Await(db, [q EXCEPT !.market = market], "outcome")

resolveMarket(db, q) ==
  IF q.pc = "user"
  THEN IF q.userId \notin DOMAIN db.users
       THEN Reply(db, q, 404, "User not found")
       ELSE Await(db, [q EXCEPT !.user = db.users[q.userId]], "market")
  ELSE IF q.pc = "market"
  THEN IF q.marketId \notin DOMAIN db.markets
       THEN Reply(db, q, 404, "Market not found")
       ELSE marketChecked(db, q, db.markets[q.marketId])
  ELSE IF q.pc = "outcome"
  THEN IF q.outcomeId \notin DOMAIN db.outcomes
          \/ db.outcomes[q.outcomeId].marketId # q.marketId
       THEN Reply(db, q, 400, "Invalid outcome ID")
       ELSE Await(db, [q EXCEPT !.outcome = db.outcomes[q.outcomeId]], "tx")
  ELSE committed(resolveMarketTx(db, q), db, q,
                 "An error occurred while resolving the market")

\* ------------------------------------------------------------------------
\* MakeAdmin (make-admin POST)
\* ------------------------------------------------------------------------
\* The endpoint asks for no session: the body names the user, who is read
\* and then updated, each through the plain client.
makeAdmin(db, q) ==
  IF q.pc = "user"
  THEN IF q.userId = NoId THEN Reply(db, q, 400, "Email is required")
       ELSE IF q.userId \notin DOMAIN db.users
       THEN Reply(db, q, 404, "User not found")
       ELSE Await(db, [q EXCEPT !.user = db.users[q.userId]], "update")
  ELSE Reply([db EXCEPT !.users[q.userId].isAdmin = TRUE],
             [q EXCEPT !.user.isAdmin = TRUE], 200, NoError)

\* ------------------------------------------------------------------------
\* Register (register POST)
\* ------------------------------------------------------------------------
\* The endpoint asks for no session.  The body names the email, which is
\* looked up; the password is hashed and the user created with the
\* registration balance and no holdings.  An email taken in the meantime
\* breaks the unique index.
register(db, q) ==
  IF q.pc = "user"
  THEN IF q.userId = NoId
       THEN Reply(db, q, 400, "Please provide a valid email")
       ELSE IF q.userId \in DOMAIN db.users
       THEN Reply(db, q, 400, "User with this email already exists")
       ELSE Await(db, q, "hash")
  ELSE IF q.pc = "hash" THEN Await(db, q, "create")
  ELSE IF q.userId \in DOMAIN db.users
  THEN Reply(db, q, 500,
             "An error occurred during registration. Please try again later.")
  ELSE Reply([db EXCEPT
                !.users = (q.userId :>
                             [balance |-> Number(RegistrationBalance),
                              isAdmin |-> FALSE]) @@ @,
                !.userOutcomes =
                   (q.userId :> [o \in DOMAIN db.outcomes |-> NoHolding])
                   @@ @],
             q, 201, NoError)

\* ------------------------------------------------------------------------
\* CreateMarket (markets POST)
\* ------------------------------------------------------------------------
\* The least number of outcomes the schema takes.
MinOutcomes == 2

\* The transaction: the market with no volume, then its outcomes, each at
\* the same probability.
createMarketTx(tx, q) ==
  LET market == MarketId(Cardinality(DOMAIN tx.markets) + 1)
      count == Cardinality(DOMAIN tx.outcomes)
      ids == {OutcomeId(count + i) : i \in 1..q.outcomes}
      initialProbability == Fp(One, "/", Number(q.outcomes))
  IN  [tx EXCEPT
         !.markets = (market :> [volume |-> Zero, isResolved |-> FALSE,
                                 resolvedOutcomeId |-> NoId]) @@ @,
         !.outcomes = [o \in ids |->
                         [marketId |-> market,
                          probability |-> initialProbability,
                          isResolved |-> FALSE]] @@ @,
         !.userOutcomes =
            [u \in DOMAIN @ |-> [o \in ids |-> NoHolding] @@ @[u]]]

createMarket(db, q) ==
  IF q.pc = "user"
  THEN IF q.userId \notin DOMAIN db.users
       THEN Reply(db, q, 404, "User not found")
       ELSE IF ~db.users[q.userId].isAdmin
       THEN Reply(db, [q EXCEPT !.user = db.users[q.userId]], 403,
                  "Only administrators can create markets")
       ELSE IF q.outcomes < MinOutcomes
       THEN Reply(db, [q EXCEPT !.user = db.users[q.userId]], 400,
                  "Validation failed")
       ELSE Await(db, [q EXCEPT !.user = db.users[q.userId]], "tx")
  ELSE IF storable(createMarketTx(db, q))
  THEN Reply(createMarketTx(db, q), q, 201, NoError)
  ELSE Reply(db, q, 500, "An error occurred while creating the market")

\* ------------------------------------------------------------------------
\* The server.  A request arrives; a request in flight runs from the await
\* it stands at to its next await or to its answer.
\* ------------------------------------------------------------------------
\* The route of request q, at the await q stands at.
route(db, q, matchingOrders) ==
  IF q.kind = "trade" THEN executeTrade(db, q)
  ELSE IF q.kind = "position" THEN executePositionTrade(db, q)
  ELSE IF q.kind = "order" THEN placeOrder(db, q, matchingOrders)
  ELSE IF q.kind = "cancel" THEN cancelOrder(db, q)
  ELSE IF q.kind = "resolve" THEN resolveMarket(db, q)
  ELSE IF q.kind = "admin" THEN makeAdmin(db, q)
  ELSE IF q.kind = "register" THEN register(db, q)
  ELSE IF q.kind = "market" THEN createMarket(db, q)
  ELSE deposit(db, q)

\* The handler of request q run from the await q stands at to its next.
handle(db, q, matchingOrders) ==
  Engine([call |-> "handle", db |-> db, q |-> q,
          matchingOrders |-> matchingOrders])

\* What the matching query of request q can return on db; no query is made
\* unless q is a MARKET order about to run its transaction.
Matchings(db, q) ==
  IF q.kind = "order" /\ q.pc = "tx" /\ q.orderType = "MARKET"
  THEN MatchingOrders(db, q)
  ELSE {<<>>}

\* The steps request q can take from the await it stands at: one for each
\* result its matching query can return.
steps(db, q) ==
  {handle(db, q, matchingOrders) : matchingOrders \in Matchings(db, q)}

\* Request q run alone from the await q stands at to its answer.
alone(db, q) == Engine([call |-> "alone", db |-> db, q |-> q])

served(db, q) ==
  LET next(s) == alone(s.db, s.q)
  IN  IF q.pc = "done" THEN db
      ELSE next(handle(db, q, CHOOSE m \in Matchings(db, q) : TRUE))

Engine(c) ==
  IF c.call = "Fp" THEN Ieee754(c.x, c.op, c.y)
  ELSE IF c.call = "handle" THEN route(c.db, c.q, c.matchingOrders)
  ELSE IF c.call = "steps" THEN steps(c.db, c.q)
  ELSE served(c.db, c.q)

Trade(userId, marketId, outcomeId, amount, type, isSharesMode) ==
  Request("trade", userId, marketId, outcomeId, 0, type, "YES", NoId,
          isSharesMode, amount, NoPrice)

PositionTrade(userId, marketId, outcomeId, amount, type, positionType, isSharesMode) ==
  Request("position", userId, marketId, outcomeId, 0, type, positionType,
          NoId, isSharesMode, amount, NoPrice)

Order(userId, marketId, outcomeId, type, orderType, amount, inputPrice) ==
  Request("order", userId, marketId, outcomeId, 0, type, "YES", orderType,
          FALSE, amount, inputPrice)

Cancel(userId, id) ==
  Request("cancel", userId, NoId, NoId, id, NoId, "YES", NoId, FALSE, Zero,
          NoPrice)

Resolve(userId, id, resolvedOutcomeId) ==
  Request("resolve", userId, id, resolvedOutcomeId, 0, NoId, "YES", NoId,
          FALSE, Zero, NoPrice)

Admin(email) ==
  Request("admin", email, NoId, NoId, 0, NoId, "YES", NoId, FALSE, Zero,
          NoPrice)

Register(email) ==
  Request("register", email, NoId, NoId, 0, NoId, "YES", NoId, FALSE, Zero,
          NoPrice)

\* A market of that many outcomes.
CreateMarket(userId, n) ==
  [Request("market", userId, NoId, NoId, 0, NoId, "YES", NoId, FALSE, Zero,
           NoPrice) EXCEPT !.outcomes = n]

Deposit(userId, amount) ==
  Request("deposit", userId, NoId, NoId, 0, NoId, "YES", NoId, FALSE,
          amount, NoPrice)

NoResponse == [Deposit(NoId, Zero) EXCEPT !.pc = "done"]

\* ------------------------------------------------------------------------
\* Initial states
\* ------------------------------------------------------------------------
\* Two registered users, u2 made an administrator, and two markets just
\* created by u2, m1 of outcomes A and B and m2 of outcomes C to H, each
\* outcome at the probability its market was created with; no orders,
\* trades or holdings.
Fresh ==
  [users |-> [u \in {"u1", "u2"} |->
                [balance |-> Number(RegistrationBalance),
                 isAdmin |-> u = "u2"]],
   markets |-> [m \in {"m1", "m2"} |->
                  [volume |-> Zero, isResolved |-> FALSE,
                   resolvedOutcomeId |-> NoId]],
   outcomes |-> [o \in {"A", "B", "C", "D", "E", "F", "G", "H"} |->
                   [marketId |-> IF o \in {"A", "B"} THEN "m1" ELSE "m2",
                    probability |->
                       Fp(One, "/", Number(IF o \in {"A", "B"} THEN 2 ELSE 6)),
                    isResolved |-> FALSE]],
   orders |-> <<>>,
   trades |-> EmptyBag,
   userOutcomes |-> [u \in {"u1", "u2"} |->
                       [o \in {"A", "B", "C", "D", "E", "F", "G", "H"} |->
                          NoHolding]],
   transactions |-> EmptyBag,
   failed |-> FALSE]

InitFrom(db) ==
  /\ users = db.users
  /\ markets = db.markets
  /\ outcomes = db.outcomes
  /\ orders = db.orders
  /\ trades = db.trades
  /\ userOutcomes = db.userOutcomes
  /\ transactions = db.transactions
  /\ response = NoResponse
  /\ fillLog = <<>>
  /\ requests = <<>>

Init == InitFrom(Fresh)

Write(db) ==
  /\ users' = db.users
  /\ markets' = db.markets
  /\ outcomes' = db.outcomes
  /\ orders' = db.orders
  /\ trades' = db.trades
  /\ userOutcomes' = db.userOutcomes
  /\ transactions' = db.transactions

Without(s, k) == [i \in 1..(Len(s) - 1) |-> IF i < k THEN s[i] ELSE s[i + 1]]

\* Request q arrives: nothing is read or written yet.
Arrive(q) ==
  /\ requests' = Append(requests, q)
  /\ UNCHANGED <<tables, response, fillLog>>

\* Request k in flight runs to its next await, or to its answer, which is
\* then the last response.
Take(k, s) ==
  /\ Write(s.db)
  /\ fillLog' = s.fills
  /\ IF s.q.pc = "done"
     THEN /\ response' = s.q
          /\ requests' = Without(requests, k)
     ELSE /\ response' = response
          /\ requests' = [requests EXCEPT ![k] = s.q]

Advance(k) ==
  \E s \in Engine([call |-> "steps", db |-> DB, q |-> requests[k]]) :
    Take(k, s)

\* ------------------------------------------------------------------------
\* The handlers as actions: a request of the kind in flight takes its next
\* step.
\* ------------------------------------------------------------------------
ExecuteTrade ==
  \E k \in 1..Len(requests) : requests[k].kind = "trade" /\ Advance(k)

ExecutePositionTrade ==
  \E k \in 1..Len(requests) : requests[k].kind = "position" /\ Advance(k)

PlaceOrder ==
  \E k \in 1..Len(requests) : requests[k].kind = "order" /\ Advance(k)

CancelOrder ==
  \E k \in 1..Len(requests) : requests[k].kind = "cancel" /\ Advance(k)

ResolveMarket ==
  \E k \in 1..Len(requests) : requests[k].kind = "resolve" /\ Advance(k)

MakeDeposit ==
  \E k \in 1..Len(requests) : requests[k].kind = "deposit" /\ Advance(k)

MakeAdmin ==
  \E k \in 1..Len(requests) : requests[k].kind = "admin" /\ Advance(k)

RegisterUser ==
  \E k \in 1..Len(requests) : requests[k].kind = "register" /\ Advance(k)

CreateMarketAsAdmin ==
  \E k \in 1..Len(requests) : requests[k].kind = "market" /\ Advance(k)

\* ------------------------------------------------------------------------
\* Specifications.  Each draws the requests from a small set and stops
\* taking orders and trades at a bound.
\* ------------------------------------------------------------------------
Sides == {"BUY", "SELL"}

\* The users whose requests arrive.
Callers == {"u1", "u2"}

\* A price in hundredths, as a request body carries it.
Price(n) == <<Decimal(n, 100)>>

\* Requests of these kinds in flight.
InFlight(kinds) ==
  Cardinality({k \in 1..Len(requests) : requests[k].kind \in kinds})

\* Number of transaction rows of the types, equal rows counted each.
RowsOfTypes(types) ==
  LET rows == {t \in BagToSet(transactions) : t.type \in types}
      RECURSIVE Count(_)
      Count(S) == IF S = {} THEN 0
                  ELSE LET t == CHOOSE x \in S : TRUE
                       IN  CopiesIn(t, transactions) + Count(S \ {t})
  IN  Count(rows)

\* Number of immediate trades executed so far, by either handler, those
\* of the initial state included.
ExecutedTrades == RowsOfTypes({"TRADE_BUY", "TRADE_SELL"})

\* There is room for request q when the orders placed and in flight stay
\* below maxOrders and the trades executed and in flight below maxTrades.
Room(q, maxOrders, maxTrades) ==
  /\ q.kind = "order" => Len(orders) + InFlight({"order"}) < maxOrders
  /\ q.kind \in {"trade", "position"} =>
       ExecutedTrades + InFlight({"trade", "position"}) < maxTrades

\* Number of deposits made so far.
Deposits == RowsOfTypes({"DEPOSIT"})

\* The state after u1 has bought 50 of A: u1 holds 100 shares of A, which
\* stands at 0.99.
SeedBook == alone(Fresh, Trade("u1", "m1", "A", Number(50), "BUY", FALSE))

\* The state after u1 has bought 50 of A and u2 has bought 50 of C.
SeedResolve ==
  alone(SeedBook, Trade("u2", "m2", "C", Number(50), "BUY", FALSE))

\* The state after u1 has bought 50 of A and u2 has placed a LIMIT BUY of
\* 40 at 0.40 on A.
SeedRace ==
  alone(SeedBook,
        Order("u2", "m1", "A", "BUY", "LIMIT", Number(40), Price(40)))

\* All four operations of the order book one at a time, rejected requests
\* included, in market m1 while u2 holds shares in m2: LIMIT orders of 100
\* at 0.40 by u1, MARKET BUY orders of 150 by u2, cancellations by the
\* owner and by the other user, and resolutions to either outcome.
MaxOrders == 3

Requests ==
  {Order("u1", "m1", "A", t, "LIMIT", Number(100), Price(40)) :
     t \in Sides}
  \cup {Order("u2", "m1", "A", "BUY", "MARKET", Number(150), NoPrice)}
  \cup {Cancel(u, id) : u \in Callers, id \in 1..MaxOrders}
  \cup {Resolve("u2", "m1", o) : o \in {"A", "B"}}

Arrival ==
  \E q \in Requests :
    /\ requests = <<>>
    /\ Room(q, MaxOrders, 0)
    /\ Arrive(q)

Next == Arrival \/ PlaceOrder \/ CancelOrder \/ ResolveMarket

Spec == InitFrom(SeedResolve) /\ [][Next]_vars

\* Immediate trades, one request at a time, in every market and through
\* both handlers: amounts of a half (so that a market's volume can lie
\* between 0 and 1 when the next trade is priced), of 3 and of 50, and
\* sales of 3 shares.
PricingMaxTrades == 3

PricingRequests ==
  {Trade("u1", IF o = "A" THEN "m1" ELSE "m2", o, a, "BUY", FALSE) :
     o \in {"A", "C", "D"}, a \in {Decimal(1, 2), Number(3), Number(50)}}
  \cup {Trade("u1", IF o = "A" THEN "m1" ELSE "m2", o, Number(3), "SELL",
              TRUE) :
          o \in {"A", "C"}}
  \cup {PositionTrade("u1", "m1", "A", a, "BUY", "YES", FALSE) :
          a \in {Decimal(1, 2), Number(50)}}

PricingArrival ==
  \E q \in PricingRequests :
    /\ requests = <<>>
    /\ Room(q, 0, PricingMaxTrades)
    /\ Arrive(q)

NextPricing ==
  \/ PricingArrival \/ ExecuteTrade \/ ExecutePositionTrade

SpecPricing == Init /\ [][NextPricing]_vars

\* The order book of outcome A once u1 holds shares, one request at a
\* time: LIMIT orders of 30 resting at 0.40 and at 0.60 on either side, a
\* LIMIT BUY that takes a whole balance, and MARKET orders of 20 and of 50
\* that take one resting order in part or one and a part of the next.
BookMaxOrders == 3

BookRequests ==
  {Order(u, "m1", "A", t, "LIMIT", Number(30), Price(p)) :
     u \in Callers, t \in Sides, p \in {40, 60}}
  \cup {Order("u2", "m1", "A", "BUY", "LIMIT", Number(RegistrationBalance),
              Price(40))}
  \cup {Order(u, "m1", "A", t, "MARKET", a, NoPrice) :
          u \in Callers, t \in Sides, a \in {Number(20), Number(50)}}

BookArrival ==
  \E q \in BookRequests :
    /\ requests = <<>>
    /\ Room(q, BookMaxOrders, 0)
    /\ Arrive(q)

NextBook == BookArrival \/ PlaceOrder

SpecBook == InitFrom(SeedBook) /\ [][NextBook]_vars

\* Requests that fail, next to ones that succeed, once u1 holds shares of
\* A: amounts of zero and beyond any balance or holding, a missing price, a
\* price of zero and one of 1.00, an outcome of another market, a market
\* that does not exist, a resolved market, and a resting sell order whose
\* owner has sold the whole holding in an immediate trade.
FailMaxOrders == 2
FailMaxTrades == 2

FailBodies ==
  {[outcomeId |-> "A", amount |-> Number(40), inputPrice |-> Price(40)],
   [outcomeId |-> "C", amount |-> Number(40), inputPrice |-> Price(40)],
   [outcomeId |-> "A", amount |-> Zero, inputPrice |-> Price(40)],
   [outcomeId |-> "A", amount |-> Number(2000), inputPrice |-> Price(40)],
   [outcomeId |-> "A", amount |-> Number(40), inputPrice |-> NoPrice],
   [outcomeId |-> "A", amount |-> Number(40), inputPrice |-> Price(0)],
   [outcomeId |-> "A", amount |-> Number(40), inputPrice |-> Price(100)]}

FailRequests ==
  {Order(u, "m1", b.outcomeId, t, "LIMIT", b.amount, b.inputPrice) :
     u \in Callers, t \in Sides, b \in FailBodies}
  \cup {Order(u, "m1", "A", t, "MARKET", Number(40), p) :
          u \in Callers, t \in Sides, p \in {NoPrice, Price(0)}}
  \cup {Trade(u, "m1", o, a, t, FALSE) :
          u \in Callers, o \in {"A", "C"}, a \in {Zero, Number(2000)},
          t \in Sides}
  \cup {PositionTrade("u1", "m1", "A", a, "SELL", "YES", TRUE) :
          a \in {Zero, Number(100)}}
  \cup {Order("u1", NoId, "A", "BUY", "LIMIT", Number(40), Price(40)),
        Trade("u1", NoId, "A", Number(40), "BUY", FALSE)}
  \cup {Resolve("u2", "m1", "A")}

FailArrival ==
  \E q \in FailRequests :
    /\ requests = <<>>
    /\ Room(q, FailMaxOrders, FailMaxTrades)
    /\ Arrive(q)

NextFail ==
  \/ FailArrival \/ ExecuteTrade \/ ExecutePositionTrade \/ PlaceOrder
  \/ ResolveMarket

SpecFail == InitFrom(SeedBook) /\ [][NextFail]_vars

\* Every operation that moves a balance, one at a time, once u1 holds
\* shares of A: immediate trades of 3 through both handlers, in dollars and
\* in shares, YES and NO; a resting LIMIT order of either side and a MARKET
\* BUY that takes the sell order; cancellations, the resolution of m1 and a
\* deposit.
LedgerMaxOrders == 2
LedgerMaxTrades == 3
LedgerMaxDeposits == 1

LedgerRequests ==
  {Trade("u2", "m1", "A", Number(3), "BUY", FALSE),
   Trade("u2", "m1", "A", Number(3), "SELL", FALSE),
   Trade("u1", "m1", "A", Number(3), "SELL", TRUE),
   PositionTrade("u2", "m1", "A", Number(3), "BUY", "YES", FALSE),
   PositionTrade("u2", "m1", "A", Number(3), "BUY", "NO", TRUE),
   PositionTrade("u2", "m1", "A", Number(3), "SELL", "YES", FALSE),
   PositionTrade("u2", "m1", "A", Number(3), "SELL", "NO", TRUE)}
  \cup {Order("u1", "m1", "A", "SELL", "LIMIT", Number(40), Price(40)),
        Order("u2", "m1", "A", "BUY", "LIMIT", Number(40), Price(40)),
        Order("u2", "m1", "A", "BUY", "MARKET", Number(40), NoPrice)}
  \cup {Cancel("u2", 1), Resolve("u2", "m1", "A"),
        Deposit("u2", Number(MinDeposit))}

LedgerArrival ==
  \E q \in LedgerRequests :
    /\ requests = <<>>
    /\ Room(q, LedgerMaxOrders, LedgerMaxTrades)
    /\ q.kind = "deposit" => Deposits < LedgerMaxDeposits
    /\ Arrive(q)

NextLedger ==
  \/ LedgerArrival \/ ExecuteTrade \/ ExecutePositionTrade \/ PlaceOrder
  \/ CancelOrder \/ ResolveMarket \/ MakeDeposit

SpecLedger == InitFrom(SeedBook) /\ [][NextLedger]_vars

\* Two requests at a time on market m1, from the state in which u1 holds 100
\* shares of A and u2 has a LIMIT BUY of 40 at 0.40 resting on A: trades of
\* 20 and 600, LIMIT BUY orders of 600, a MARKET SELL of 40, cancellations
\* of the resting order, resolutions to A or B by either user, the
\* resolution of a market that does not exist, the promotion to
\* administrator of u1, of a user who does not exist and of nobody, the
\* registration of u3, of u1 again and of nobody, the creation of a
\* market by either user and of one with a single outcome, and a trade of
\* 20 by u3 and one in the third market.  No request arrives once one has
\* answered.
RaceMaxRequests == 2

RaceRequests ==
  {Trade(u, "m1", "A", a, t, FALSE) :
     u \in Callers, a \in {Number(20), Number(600)}, t \in Sides}
  \cup {Order(u, "m1", "A", "BUY", "LIMIT", Number(600), Price(40)) :
          u \in Callers}
  \cup {Order("u1", "m1", "A", "SELL", "MARKET", Number(40), NoPrice)}
  \cup {Cancel(u, 1) : u \in Callers}
  \cup {Resolve(u, "m1", "A") : u \in Callers}
  \cup {Resolve("u2", "m1", "B")}
  \cup {Resolve(u, NoId, "A") : u \in Callers}
  \cup {Admin("u1"), Admin("u0"), Admin(NoId)}
  \cup {Register("u3"), Register("u1"), Register(NoId)}
  \cup {CreateMarket(u, 2) : u \in Callers}
  \cup {CreateMarket("u2", 1)}
  \cup {Trade("u3", "m1", "A", Number(20), "BUY", FALSE),
        Trade("u1", "m3", "I", Number(20), "BUY", FALSE)}

RaceArrival ==
  \E q \in RaceRequests :
    /\ response = NoResponse
    /\ Len(requests) < RaceMaxRequests
    /\ Arrive(q)

NextRace ==
  \/ RaceArrival \/ ExecuteTrade \/ PlaceOrder \/ CancelOrder
  \/ ResolveMarket \/ MakeAdmin \/ RegisterUser \/ CreateMarketAsAdmin

SpecRace == InitFrom(SeedRace) /\ [][NextRace]_vars

\* ------------------------------------------------------------------------
\* Properties
\* ------------------------------------------------------------------------
\* x and y differ by less than a millionth.
Tolerance == Decimal(1, 1000000)
Near(x, y) == Less(Abs(Fp(x, "-", y)), Tolerance)

\* A request in flight answers in the step; response' is that request with
\* the rows it read and its status.
Answered == Len(requests') < Len(requests)

\* A request of one of the kinds answers in the step with the status.
Answers(kinds, status) ==
  Answered /\ response'.kind \in kinds /\ response'.status = status

\* Request k in flight takes the step.
Steps(k) ==
  \/ Len(requests') = Len(requests) /\ requests'[k] # requests[k]
  \/ Answered /\ requests' = Without(requests, k)

\* Sum of the doubles f[x] over the finite set S.
RECURSIVE SumOver(_, _)
SumOver(f, S) ==
  IF S = {} THEN Zero
  ELSE LET x == CHOOSE y \in S : TRUE
       IN  Fp(f[x], "+", SumOver(f, S \ {x}))

\* Bag holding the row f[x] once for every x of the finite set S.
RECURSIVE RowsOver(_, _)
RowsOver(f, S) ==
  IF S = {} THEN EmptyBag
  ELSE LET x == CHOOSE y \in S : TRUE
       IN  SetToBag({f[x]}) (+) RowsOver(f, S \ {x})

\* Sum of the probabilities of the outcomes of market m among rows, added
\* up in the order of the rows.
SumProbability(rows, m) ==
  LET ids == SelectSeq(findMany(rows), LAMBDA o : rows[o].marketId = m)
      RECURSIVE sum(_)
      sum(i) == IF i = 0 THEN Zero
                ELSE Fp(sum(i - 1), "+", rows[ids[i]].probability)
  IN  sum(Len(ids))

SumsToOne(rows) ==
  \A m \in Markets :
    Less(Abs(Fp(SumProbability(rows, m), "-", One)), Decimal(1, 10000))

\* C1: in every market the outcome probabilities sum to 1.00 within less
\* than 1e-4 after any trade, an immediate trade or a single fill of a
\* MARKET order, after any sequence of trades, for two outcomes and for
\* more.
C1_ProbabilitySum ==
  /\ SumsToOne(outcomes)
  /\ \A i \in 1..Len(fillLog) : SumsToOne(fillLog[i].outcomes)

\* C2: every outcome probability, of the traded outcome and of each rescaled
\* sibling, lies in [0.01, 0.99] in every reachable state.
C2_ProbabilityBounds ==
  \A o \in Outcomes :
    /\ AtMost(MinProbability, outcomes[o].probability)
    /\ AtMost(outcomes[o].probability, MaxProbability)

\* C3: after any sequence of operations executed one at a time every user's
\* balance is >= 0, the owner of a resting order that was filled included.
C3_BalanceNonNegative == \A u \in Users : AtMost(Zero, users[u].balance)

\* C4: every fill of a MARKET order against a resting order takes the
\* fill's notional (fillAmount x tradePrice) from the buyer and gives it to
\* the seller, so the two parties' combined balance is unchanged.
C4_FillTransfersNotional ==
  \A i \in 1..Len(fillLog) :
    LET f == fillLog[i]
        notional == Fp(f.fillAmount, "*", f.tradePrice)
    IN  /\ Less(Zero, notional)
        /\ IF f.buyer = f.seller
           THEN Near(f.after[f.buyer], f.before[f.buyer])
           ELSE /\ f.after[f.buyer] = Fp(f.before[f.buyer], "-", notional)
                /\ f.after[f.seller] = Fp(f.before[f.seller], "+", notional)
        /\ Near(Fp(f.after[f.buyer], "+", f.after[f.seller]),
                Fp(f.before[f.buyer], "+", f.before[f.seller]))
        /\ \A u \in Users \ {f.buyer, f.seller} : f.after[u] = f.before[u]

\* A MARKET order was just filled against the resting order of another user.
C4_Witness ==
  \E i \in 1..Len(fillLog) :
    /\ fillLog[i].buyer # fillLog[i].seller
    /\ Less(fillLog[i].after[fillLog[i].buyer],
            fillLog[i].before[fillLog[i].buyer])
    /\ Less(fillLog[i].before[fillLog[i].seller],
            fillLog[i].after[fillLog[i].seller])

FilledWithinAmount ==
  \A i \in 1..Len(orders) :
    /\ AtMost(Zero, orders[i].filled)
    /\ AtMost(orders[i].filled, orders[i].amount)
    /\ orders[i].status = "FILLED" <=> orders[i].filled = orders[i].amount

\* C5: for every order, 0 <= filled <= amount and status is FILLED exactly
\* when filled = amount, in every reachable state; and filled never
\* decreases from one state to the next.
C5_FilledBoundedMonotone ==
  /\ []FilledWithinAmount
  /\ [][\A i \in 1..Len(orders) :
          AtMost(orders[i].filled, orders'[i].filled)]_vars

\* C6: a successful CancelOrder sets the order to CANCELLED; for a BUY order
\* it credits amount - filled to the order's owner and logs one
\* ORDER_CANCEL_REFUND transaction for the owner, whoever the authorised
\* caller is; for a SELL order it changes no balance and logs nothing.
C6_CancelRefundsOwner ==
  [][Answers({"cancel"}, 200) =>
       LET order == orders[response'.id]
           refund == Fp(order.amount, "-", order.filled)
       IN  /\ orders' = [orders EXCEPT ![response'.id].status = "CANCELLED"]
           /\ IF order.type = "BUY"
              THEN /\ users' = [users EXCEPT
                                  ![order.userId].balance =
                                     Fp(@, "+", refund)]
                   /\ transactions' = BagAdd(transactions,
                        [userId |-> order.userId, amount |-> refund,
                         type |-> "ORDER_CANCEL_REFUND"])
              ELSE /\ users' = users
                   /\ transactions' = transactions]_vars

\* Request k is a CancelOrder that has just read an order that exists.
ReadsOrder(k) ==
  /\ requests[k].kind = "cancel"
  /\ requests[k].pc = "order"
  /\ requests[k].id \in 1..Len(orders)
  /\ Steps(k)

\* C7: a CancelOrder that finds the order not OPEN (cancelled before, or
\* FILLED) fails and changes no table.
C7_CancelClosedOrderFails ==
  [][\A k \in 1..Len(requests) :
       ReadsOrder(k) /\ orders[requests[k].id].status # "OPEN"
       => /\ Answered
          /\ response'.status # 200
          /\ UNCHANGED tables]_vars

\* The owner's cancellation of an order that a MARKET order had filled was
\* just rejected because the order is not OPEN.
C7_Witness ==
  /\ response.kind = "cancel"
  /\ response.userId = "u2"
  /\ response.status = 400
  /\ response.error = "Only open orders can be cancelled"
  /\ orders[1].status = "FILLED"

\* Rows of the given type in a bag of transactions.
RowsOfType(B, type) ==
  [r \in {x \in DOMAIN B : x.type = type} |-> B[r]]

OpenOrdersOf(m) ==
  {i \in 1..Len(orders) : orders[i].marketId = m /\ orders[i].status = "OPEN"}

OpenBuyOrdersOf(m) ==
  {i \in OpenOrdersOf(m) :
     /\ orders[i].type = "BUY"
     /\ Less(Zero, Fp(orders[i].amount, "-", orders[i].filled))}

\* What resolution owes user v: the shares held of the winning outcome o,
\* and the unfilled part of v's open BUY orders in market m.
Payout(v, o) ==
  IF Less(Zero, userOutcomes[v][o].quantity)
  THEN userOutcomes[v][o].quantity ELSE Zero

Refund(v, m) ==
  SumOver([i \in 1..Len(orders) |->
             Fp(orders[i].amount, "-", orders[i].filled)],
          {i \in OpenBuyOrdersOf(m) : orders[i].userId = v})

\* C8: a successful ResolveMarket pays each holder of the winning outcome
\* quantity x 1.00 with one MARKET_RESOLUTION_PAYOUT transaction, pays the
\* holders of the other outcomes nothing, leaves every holding of the market
\* at quantity 0 and holdings of other markets unchanged.
C8_ResolutionPayout ==
  [][Answers({"resolve"}, 200) =>
       LET o == response'.outcomeId
           m == response'.marketId
       IN  /\ RowsOfType(transactions' (-) transactions,
                         "MARKET_RESOLUTION_PAYOUT")
                = RowsOver([v \in Users |->
                              [userId |-> v,
                               amount |-> userOutcomes[v][o].quantity,
                               type |-> "MARKET_RESOLUTION_PAYOUT"]],
                           {v \in Users :
                              Less(Zero, userOutcomes[v][o].quantity)})
           /\ \A v \in Users :
                Near(users'[v].balance,
                     Fp(Fp(users[v].balance, "+", Payout(v, o)), "+",
                        Refund(v, m)))
           /\ \A v \in Users, x \in Outcomes :
                IF MarketOf(x) = m
                THEN userOutcomes'[v][x].quantity = Zero
                ELSE userOutcomes'[v][x] = userOutcomes[v][x]]_vars

ResolvedConsistently ==
  \A m \in Markets :
    markets[m].isResolved =>
      /\ markets[m].resolvedOutcomeId \in OutcomesOf(m)
      /\ {o \in OutcomesOf(m) : outcomes[o].isResolved}
           = {markets[m].resolvedOutcomeId}

\* C9: resolution is terminal.  A resolved market stays resolved with the
\* same resolvedOutcomeId, exactly that outcome of the market is flagged
\* isResolved, and a ResolveMarket that finds the market resolved fails and
\* changes no table.
C9_ResolutionTerminal ==
  /\ []ResolvedConsistently
  /\ [][/\ \A m \in Markets :
             markets[m].isResolved =>
               /\ markets'[m].isResolved
               /\ markets'[m].resolvedOutcomeId = markets[m].resolvedOutcomeId
        /\ \A k \in 1..Len(requests) :
             /\ requests[k].kind = "resolve"
             /\ requests[k].pc = "market"
             /\ requests[k].marketId \in Markets
             /\ markets[requests[k].marketId].isResolved
             /\ Steps(k)
             => /\ Answered
                /\ response'.status # 200
                /\ UNCHANGED tables]_vars

NoOpenOrderInResolvedMarket ==
  \A i \in 1..Len(orders) :
    markets[orders[i].marketId].isResolved => orders[i].status # "OPEN"

\* C10: a successful ResolveMarket sets every OPEN order of the market to
\* CANCELLED and changes no other order; each such BUY order's owner is
\* credited amount - filled with one ORDER_REFUND transaction; no order of a
\* resolved market is OPEN.
C10_ResolutionCancelsOrders ==
  /\ []NoOpenOrderInResolvedMarket
  /\ [][Answers({"resolve"}, 200) =>
          LET o == response'.outcomeId
              m == response'.marketId
          IN  /\ orders' = [i \in 1..Len(orders) |->
                              IF i \in OpenOrdersOf(m)
                              THEN [orders[i] EXCEPT !.status = "CANCELLED"]
                              ELSE orders[i]]
              /\ RowsOfType(transactions' (-) transactions, "ORDER_REFUND")
                   = RowsOver([i \in 1..Len(orders) |->
                                 [userId |-> orders[i].userId,
                                  amount |-> Fp(orders[i].amount, "-",
                                                orders[i].filled),
                                  type |-> "ORDER_REFUND"]],
                              OpenBuyOrdersOf(m))
              /\ \A v \in Users :
                   Near(users'[v].balance,
                        Fp(Fp(users[v].balance, "+", Payout(v, o)), "+",
                           Refund(v, m)))]_vars

\* C11: a PlaceOrder or ExecuteTrade that fails, on a precondition or midway
\* through matching, leaves every table as it was: no order, trade or
\* transaction is created and no balance, holding, order, volume or
\* probability changes, neither in the step that answers nor in a step
\* before it.
C11_FailureChangesNothing ==
  [][\A k \in 1..Len(requests) :
       /\ requests[k].kind \in {"order", "trade", "position"}
       /\ Steps(k)
       /\ Answered => response'.status # 200
       => UNCHANGED tables]_vars

\* A market order has failed midway through matching, while an order rests.
C11_Witness ==
  /\ response.kind = "order"
  /\ response.orderType = "MARKET"
  /\ response.status = 500
  /\ response.error = "An error occurred while creating the order"
  /\ \E i \in 1..Len(orders) : orders[i].status = "OPEN"

\* C12: every holding has a quantity of at least zero (the table has at
\* most one row for a user and an outcome), also for the owner of a resting
\* sell order when that order is filled.
C12_HoldingNonNegative ==
  \A u \in Users, o \in Outcomes : AtMost(Zero, userOutcomes[u][o].quantity)

\* C13: an order that is FILLED or CANCELLED keeps its status and its filled
\* amount through every later PlaceOrder, CancelOrder and ResolveMarket; an
\* OPEN order can only stay OPEN or become FILLED or CANCELLED.
C13_StatusOneWay ==
  [][\A i \in 1..Len(orders) :
       /\ orders'[i].status \in {"OPEN", "FILLED", "CANCELLED"}
       /\ orders[i].status # "OPEN"
          => /\ orders'[i].status = orders[i].status
             /\ orders'[i].filled = orders[i].filled]_vars

\* The rows of market m: the market, its outcomes, the holdings in them, its
\* orders and its trades are the same after the step as before it.
MarketUntouched(m) ==
  /\ markets'[m] = markets[m]
  /\ \A o \in OutcomesOf(m) :
       /\ outcomes'[o] = outcomes[o]
       /\ \A u \in Users : userOutcomes'[u][o] = userOutcomes[u][o]
  /\ \A i \in 1..Len(orders') :
       IF i <= Len(orders) THEN orders[i].marketId = m => orders'[i] = orders[i]
       ELSE orders'[i].marketId # m
  /\ \A t \in BagToSet(trades) \cup BagToSet(trades') :
       t.marketId = m => CopiesIn(t, trades') = CopiesIn(t, trades)

\* Request k reads, in the step, the market it targets and finds it
\* resolved: a PlaceOrder or an immediate trade at its market, a
\* CancelOrder at its order.
FindsResolved(k) ==
  /\ Steps(k)
  /\ \/ /\ requests[k].kind \in {"order", "trade", "position"}
        /\ requests[k].pc = "market"
        /\ requests[k].marketId \in Markets
        /\ markets[requests[k].marketId].isResolved
     \/ /\ requests[k].kind = "cancel"
        /\ requests[k].pc = "order"
        /\ requests[k].id \in 1..Len(orders)
        /\ markets[orders[requests[k].id].marketId].isResolved

\* C14: once a market is resolved, every PlaceOrder, ExecuteTrade and
\* CancelOrder that targets it is rejected and changes nothing, and no order,
\* trade, holding, volume or probability of the market changes in any later
\* step.
C14_ResolvedMarketFrozen ==
  [][/\ \A m \in Markets : markets[m].isResolved => MarketUntouched(m)
     /\ \A k \in 1..Len(requests) :
          FindsResolved(k)
          => Answered /\ response'.status # 200 /\ UNCHANGED tables]_vars

\* Request k is a ResolveMarket that has just read its market.
ReadsMarket(k) ==
  /\ requests[k].kind = "resolve"
  /\ requests[k].pc = "market"
  /\ Steps(k)

\* Request k, whose caller the handler has read as no administrator, is a
\* ResolveMarket reading its market or a CancelOrder reading an order of
\* another user.
Forbidden(k) ==
  /\ ~requests[k].user.isAdmin
  /\ \/ ReadsMarket(k)
     \/ ReadsOrder(k) /\ orders[requests[k].id].userId # requests[k].userId

\* C15: ResolveMarket called by a user who is not an administrator, and
\* CancelOrder called by a user who is neither the owner of the order nor an
\* administrator, are answered 403 and change no table.
C15_ForbiddenChangesNothing ==
  [][\A k \in 1..Len(requests) :
       Forbidden(k)
       => /\ Answered
          /\ response'.status = 403
          /\ UNCHANGED tables]_vars

\* C15, amended: ResolveMarket called by a user who is not an administrator
\* is answered 403 when the market exists and 404 when it does not,
\* CancelOrder called by a user who is neither the owner of the order nor an
\* administrator is answered 403, and none of them changes a table.
C15_ForbiddenOnExistingMarket ==
  [][\A k \in 1..Len(requests) :
       Forbidden(k)
       => /\ Answered
          /\ response'.status =
                IF ReadsMarket(k) /\ requests[k].marketId \notin Markets
                THEN 404 ELSE 403
          /\ UNCHANGED tables]_vars

\* u1, who is no administrator, has been refused the resolution of a market
\* in which an order of u2 rests.
C15_Witness ==
  /\ response.kind = "resolve"
  /\ response.userId = "u1"
  /\ response.marketId = "m1"
  /\ ~response.user.isAdmin
  /\ response.status = 403
  /\ response.error = "Only administrators can resolve markets"
  /\ orders[1].userId = "u2" /\ orders[1].status = "OPEN"
  /\ \A m \in Markets : ~markets[m].isResolved

\* Sum of the amounts of the transaction rows of user u.
LedgerSum(u, types) ==
  SumOver([t \in BagToSet(transactions) |->
             Fp(t.amount, "*", Number(CopiesIn(t, transactions)))],
          {t \in BagToSet(transactions) : t.userId = u /\ t.type \in types})

LedgerTypes ==
  {"TRADE_BUY", "TRADE_SELL", "TRADE", "ORDER_RESERVE", "ORDER_CANCEL_REFUND",
   "ORDER_REFUND", "MARKET_RESOLUTION_PAYOUT", "DEPOSIT"}

\* C16: every change of a balance comes with one transaction row of the same
\* user and the same signed amount, so each balance is the registration
\* balance plus the sum of the user's transaction amounts.
C16_LedgerMatchesBalance ==
  \A u \in Users :
    Near(users[u].balance,
         Fp(Number(RegistrationBalance), "+", LedgerSum(u, LedgerTypes)))

\* x and y are the same four-decimal value, or neighbouring ones where the
\* rounding of the last decimal falls either way.
SameRounded(x, y) == Less(Abs(Fp(x, "-", y)), Decimal(11, 100000))

\* round4(clamp(p + f (1 - p))) for a BUY and round4(clamp(p - f p)) for a
\* SELL, with f = 0.1 * amount / max(volume, 1).
ImpactOn(p, volume, amount, type) ==
  LET f == Fp(Fp(Decimal(1, 10), "*", amount), "/",
              IF Less(One, volume) THEN volume ELSE One)
  IN  toFixed4(applyBounds(
        IF type = "BUY" THEN Fp(p, "+", Fp(f, "*", Fp(One, "-", p)))
        ELSE Fp(p, "-", Fp(f, "*", p))))

\* round4(sibling * (1 - newProb) / sum of the siblings).
SiblingShare(o, traded, newProb) ==
  toFixed4(Fp(Fp(outcomes[o].probability, "*", Fp(One, "-", newProb)), "/",
              Fp(SumProbability(outcomes, MarketOf(traded)), "-",
                 outcomes[traded].probability)))

\* The probabilities of the market of outcome o after a trade of amount on
\* o, the impact measured against volume.
PricedAs(o, volume, amount, type) ==
  /\ SameRounded(outcomes'[o].probability,
                 ImpactOn(outcomes[o].probability, volume, amount, type))
  /\ \A x \in OutcomesOf(MarketOf(o)) \ {o} :
       SameRounded(outcomes'[x].probability,
                   SiblingShare(x, o, outcomes'[o].probability))

\* C17: an executed trade sets the traded outcome to
\* round4(clamp(p + f (1 - p), 0.01, 0.99)) for a BUY and
\* round4(clamp(p - f p, 0.01, 0.99)) for a SELL with
\* f = 0.1 * amount / max(volume, 1), and each sibling to
\* round4(sibling * (1 - newProb) / sum of siblings), the volume being the
\* market's before the trade or after it; on a fresh two-outcome market a
\* BUY of 50 on A leaves A at 0.99 and B at 0.01.
C17_TradeImpact ==
  [][Answers({"trade", "position"}, 200) /\ response'.positionType = "YES"
     => /\ \/ PricedAs(response'.outcomeId, markets[response'.marketId].volume,
                    response'.amount, response'.type)
           \/ PricedAs(response'.outcomeId, markets'[response'.marketId].volume,
                    response'.amount, response'.type)
        /\ (/\ response'.outcomeId = "A"
            /\ response'.amount = Number(50)
            /\ response'.type = "BUY"
            /\ markets["m1"].volume = Zero
            /\ outcomes["A"].probability = Decimal(50, 100))
           => /\ outcomes'["A"].probability = Decimal(99, 100)
              /\ outcomes'["B"].probability = Decimal(1, 100)]_vars

\* The trade rows of user u.
TradesOf(u) == {t \in BagToSet(trades) : t.userId = u}

\* The shares the request sells.
SharesSold(q, probability) ==
  IF q.isSharesMode THEN q.amount ELSE Fp(q.amount, "/", probability)

\* The step is an executed SELL by user u of all the shares that the one
\* BUY u has made acquired, at the probability of that BUY; b is the row of
\* the BUY.
SellsBack(u, b) ==
  /\ Answers({"trade", "position"}, 200)
  /\ response'.userId = u
  /\ response'.type = "SELL"
  /\ response'.positionType = "YES"
  /\ TradesOf(u) = {b}
  /\ CopiesIn(b, trades) = 1
  /\ b.type = "BUY"
  /\ b.outcomeId = response'.outcomeId
  /\ b.price = outcomes[b.outcomeId].probability
  /\ SharesSold(response', b.price) = Fp(b.amount, "/", b.price)

\* C18: a BUY of a notional followed by a SELL of all the shares acquired, at
\* the probability of the BUY, leaves the user without a holding record for
\* the outcome and with the balance held before the BUY.
C18_RoundTrip ==
  [][\A u \in Users : \A b \in TradesOf(u) :
       SellsBack(u, b)
       => /\ userOutcomes'[u][b.outcomeId] = NoHolding
          /\ Near(users'[u].balance, Fp(users[u].balance, "+", b.amount))]_vars

\* The orders an incoming order could be matched against: OPEN, of the other
\* side, on the same market and outcome, with something left to fill.
Eligible(incoming) ==
  {i \in 1..Len(orders) :
     /\ orders[i].status = "OPEN"
     /\ orders[i].type # incoming.type
     /\ orders[i].marketId = incoming.marketId
     /\ orders[i].outcomeId = incoming.outcomeId
     /\ Less(Zero, Fp(orders[i].amount, "-", orders[i].filled))}

\* What the fills before the k-th have left of the incoming amount.
RECURSIVE RemainingBefore(_, _, _)
RemainingBefore(log, k, amount) ==
  IF k <= 1 THEN amount
  ELSE Fp(RemainingBefore(log, k - 1, amount), "-", log[k - 1].fillAmount)

\* What the fills before the k-th have taken of the incoming amount.
RECURSIVE FilledBefore(_, _)
FilledBefore(log, k) ==
  IF k <= 1 THEN Zero
  ELSE Fp(FilledBefore(log, k - 1), "+", log[k - 1].fillAmount)

\* Price a is visited no later than price b by an incoming order of this
\* type: ascending for a BUY, descending for a SELL.
NoWorse(type, a, b) == IF type = "BUY" THEN AtMost(a, b) ELSE AtMost(b, a)

\* The fills in log are a correct matching of the incoming MARKET order
\* against the book before the step.
MatchedInPriceOrder(incoming, log) ==
  /\ \A k \in 1..Len(log) :
       /\ log[k].orderId \in Eligible(incoming)
       /\ \A j \in 1..Len(log) : j # k => log[j].orderId # log[k].orderId
       /\ log[k].tradePrice = orders[log[k].orderId].price
       /\ Less(Zero, log[k].fillAmount)
       /\ log[k].fillAmount
            = Min(RemainingBefore(log, k, incoming.amount),
                  Fp(orders[log[k].orderId].amount, "-",
                     orders[log[k].orderId].filled))
       /\ k > 1 => NoWorse(incoming.type, log[k - 1].tradePrice,
                           log[k].tradePrice)
       /\ \A e \in Eligible(incoming) :
            (\A j \in 1..Len(log) : log[j].orderId # e)
            => NoWorse(incoming.type, log[k].tradePrice, orders[e].price)
  /\ \/ RemainingBefore(log, Len(log) + 1, incoming.amount) = Zero
     \/ \A e \in Eligible(incoming) :
          \E k \in 1..Len(log) : log[k].orderId = e

\* C19: a MARKET order is matched only against OPEN orders of the other side
\* on its market and outcome, in ascending price order for a BUY and
\* descending for a SELL, each at most once; a fill has the size
\* min(incoming remaining, resting remaining) and the price of the resting
\* order; matching ends when the order is filled or all of them are visited.
C19_MatchingOrder ==
  [][Answers({"order"}, 200) /\ response'.orderType = "MARKET"
     => MatchedInPriceOrder(response', fillLog')]_vars

\* A market SELL has been filled by two resting orders, the dearer first.
C19_Witness ==
  /\ Len(fillLog) = 2
  /\ Less(fillLog[2].tradePrice, fillLog[1].tradePrice)
  /\ orders[Len(orders)].orderType = "MARKET"
  /\ orders[Len(orders)].type = "SELL"

\* C20: what a MARKET order could not fill when it was placed is abandoned:
\* in no later step does the filled amount of a MARKET order grow or an
\* incoming order get matched against it.
C20_MarketRemainderAbandoned ==
  [][\A i \in 1..Len(orders) :
       orders[i].orderType = "MARKET"
       => /\ orders'[i].filled = orders[i].filled
          /\ \A k \in 1..Len(fillLog') : fillLog'[k].orderId # i]_vars

\* The order a step has appended to the book.
Placed == orders'[Len(orders')]

\* C21: placing a LIMIT order matches nothing, whatever its price: one new
\* OPEN order with filled 0, no trade, every other order, every holding,
\* the volume and the probabilities unchanged; a LIMIT BUY takes exactly
\* amount from its owner with one ORDER_RESERVE row of -amount, a LIMIT
\* SELL changes no balance and logs nothing.
C21_LimitOrderRests ==
  [][Answers({"order"}, 200) /\ response'.orderType = "LIMIT"
     => /\ Len(orders') = Len(orders) + 1
        /\ Placed.userId = response'.userId
        /\ Placed.amount = response'.amount
        /\ Placed.orderType = "LIMIT"
        /\ Placed.status = "OPEN"
        /\ Placed.filled = Zero
        /\ SubSeq(orders', 1, Len(orders)) = orders
        /\ trades' = trades
        /\ fillLog' = <<>>
        /\ userOutcomes' = userOutcomes
        /\ markets' = markets
        /\ outcomes' = outcomes
        /\ IF Placed.type = "BUY"
           THEN /\ users' = [users EXCEPT
                               ![Placed.userId].balance =
                                  Fp(@, "-", Placed.amount)]
                /\ transactions' = BagAdd(transactions,
                     [userId |-> Placed.userId,
                      amount |-> Fp(Zero, "-", Placed.amount),
                      type |-> "ORDER_RESERVE"])
           ELSE /\ users' = users
                /\ transactions' = transactions]_vars

\* A LIMIT BUY has just been placed above the price of a resting LIMIT SELL
\* of the same outcome, and both are open and unfilled.
C21_Witness ==
  /\ response.kind = "order"
  /\ response.status = 200
  /\ Len(orders) >= 2
  /\ orders[Len(orders)].orderType = "LIMIT"
  /\ orders[Len(orders)].type = "BUY"
  /\ orders[Len(orders)].status = "OPEN"
  /\ orders[Len(orders)].filled = Zero
  /\ \E i \in 1..(Len(orders) - 1) :
       /\ orders[i].type = "SELL"
       /\ orders[i].orderType = "LIMIT"
       /\ orders[i].status = "OPEN"
       /\ orders[i].filled = Zero
       /\ orders[i].outcomeId = orders[Len(orders)].outcomeId
       /\ Less(orders[i].price, orders[Len(orders)].price)

\* Probability of outcome o before fill k of log: what fill k - 1 left, or
\* the probability before the step.
PricedBefore(log, k, o) ==
  IF k <= 1 THEN outcomes[o].probability ELSE log[k - 1].outcomes[o].probability

\* Every fill of the step's MARKET order has priced the traded outcome with
\* the volume after the fill's own increment.
FillsPricedAfterVolume ==
  Answers({"order"}, 200)
  => \A k \in 1..Len(fillLog') :
       fillLog'[k].outcomes[response'.outcomeId].probability
         = newProbabilityOf(
             PricedBefore(fillLog', k, response'.outcomeId),
             Fp(Fp(markets[response'.marketId].volume, "+",
                   FilledBefore(fillLog', k)), "+", fillLog'[k].fillAmount),
             fillLog'[k].fillAmount, response'.type)

\* C22: in every trade path the volume the impact is measured against
\* already holds the amount being traded: each fill of a MARKET order and
\* every ExecuteTrade prices the traded outcome with the market's volume
\* after its own increment.
C22_VolumeIncludesTrade ==
  [][/\ FillsPricedAfterVolume
     /\ Answers({"trade"}, 200)
        => outcomes'[response'.outcomeId].probability
             = newProbabilityOf(outcomes[response'.outcomeId].probability,
                                markets'[response'.marketId].volume,
                                response'.amount, response'.type)]_vars

\* The step has sold shares of outcome o held by user u through one of the
\* three selling paths: a fill of a MARKET order, ExecuteTrade or the
\* position trade's SELL of YES shares.
SoldBy(u, o) ==
  /\ Answered
  /\ response'.status = 200
  /\ response'.outcomeId = o
  /\ Less(userOutcomes'[u][o].quantity, userOutcomes[u][o].quantity)
  /\ \/ response'.kind = "order"
     \/ /\ response'.kind \in {"trade", "position"}
        /\ response'.type = "SELL"
        /\ response'.positionType = "YES"

\* C23: a sell that disposes of the whole quantity of a holding deletes the
\* holding record; a sell of less decrements quantity and leaves avgPrice
\* as it was.
C23_SellUpdatesHolding ==
  [][\A u \in Users, o \in Outcomes :
       SoldBy(u, o)
       => IF userOutcomes'[u][o].quantity = Zero
          THEN userOutcomes'[u][o] = NoHolding
          ELSE userOutcomes'[u][o].avgPrice = userOutcomes[u][o].avgPrice]_vars

\* Request q as it arrived, before its first read.
Restarted(q) ==
  [q EXCEPT !.pc = "user", !.status = 0, !.error = NoError]

\* The last request in flight answers in the step, after another request
\* has answered: response is the one that answered first, response' the
\* one that answers now.
BothAnswered ==
  /\ Answered
  /\ requests' = <<>>
  /\ response # NoResponse

\* Request q trades outcome o: an immediate trade or a MARKET order.
TradesOutcome(q, o) ==
  /\ q.outcomeId = o
  /\ \/ q.kind = "trade"
     \/ q.kind = "order" /\ q.orderType = "MARKET"

\* The probability of outcome o after request p and then request q have
\* run on db, each alone.
AfterBoth(db, p, q, o) ==
  alone(alone(db, Restarted(p)), Restarted(q)).outcomes[o].probability

\* C24: two trades on the same outcome that run concurrently leave the
\* outcome at the probability that results from applying their two impacts
\* one after the other in some order: neither impact is lost.
C24_ImpactsSerialized ==
  [][/\ BothAnswered
     /\ response.status = 200 /\ response'.status = 200
     /\ TradesOutcome(response, "A") /\ TradesOutcome(response', "A")
     /\ response.outcome = SeedRace.outcomes["A"]
     /\ response'.outcome = SeedRace.outcomes["A"]
     => \/ outcomes'["A"].probability
             = AfterBoth(SeedRace, response, response', "A")
        \/ outcomes'["A"].probability
             = AfterBoth(SeedRace, response', response, "A")]_vars

\* The orders the step has turned from OPEN into CANCELLED.
CancelledNow ==
  {i \in 1..Len(orders) :
     orders[i].status = "OPEN" /\ orders'[i].status = "CANCELLED"}

\* What user v is refunded in the step: the amounts of the new
\* ORDER_CANCEL_REFUND and ORDER_REFUND rows of v.
Credited(v) ==
  SumOver([r \in DOMAIN (transactions' (-) transactions) |->
             Fp(r.amount, "*",
                Number(CopiesIn(r, transactions' (-) transactions)))],
          {r \in DOMAIN (transactions' (-) transactions) :
             /\ r.userId = v
             /\ r.type \in {"ORDER_CANCEL_REFUND", "ORDER_REFUND"}})

\* What the orders cancelled in the step had left to refund at that moment:
\* amount - filled of each BUY order among them.
LeftToRefund ==
  SumOver([i \in 1..Len(orders) |->
             Fp(orders[i].amount, "-", orders[i].filled)],
          {i \in CancelledNow : orders[i].type = "BUY"})

\* C25: CancelOrder running concurrently with another CancelOrder, with a
\* MARKET order that fills the order or with ResolveMarket checks the status
\* and acts as one atomic unit: every refund is paid in the step that turns
\* an order from OPEN into CANCELLED and equals amount - filled at that
\* moment, so that no order is refunded twice, and an order that has become
\* FILLED is never turned into CANCELLED.
C25_CancelAtomic ==
  [][/\ Near(SumOver([v \in Users |-> Credited(v)], Users), LeftToRefund)
     /\ \A i \in 1..Len(orders) :
          orders[i].status = "FILLED" => orders'[i].status = "FILLED"]_vars

\* Resolved market m is settled: no order of it is OPEN and no holding of
\* its outcomes has shares left to pay.
Settled(m) ==
  /\ OpenOrdersOf(m) = {}
  /\ \A u \in Users, o \in OutcomesOf(m) :
       AtMost(userOutcomes[u][o].quantity, Zero)

\* Resolved market m keeps the resolvedOutcomeId, the volume and the
\* probabilities it has.
Sealed(m) ==
  /\ markets'[m] = markets[m]
  /\ \A o \in OutcomesOf(m) :
       outcomes'[o].probability = outcomes[o].probability

\* C26: when ResolveMarket runs concurrently with PlaceOrder, ExecuteTrade
\* or a second ResolveMarket, then once all calls have completed the
\* resolved market has no OPEN order and no holding with quantity > 0, and
\* from the moment of resolution its resolvedOutcomeId is written no more
\* and its probabilities and volume do not change.
C26_ResolutionFinal ==
  /\ [](requests = <<>> =>
          \A m \in Markets : markets[m].isResolved => Settled(m))
  /\ [][\A m \in Markets : markets[m].isResolved => Sealed(m)]_vars

\* Request q takes its amount from the balance of its user: a BUY trade or
\* a LIMIT BUY order.
Buys(q) ==
  /\ q.type = "BUY"
  /\ \/ q.kind = "trade"
     \/ q.kind = "order" /\ q.orderType = "LIMIT"

\* C27: two concurrent BUY requests of one user, each within the balance
\* they both read and together beyond it, cannot both succeed, and the
\* balance stays >= 0.
C27_BuysWithinBalance ==
  [][/\ BothAnswered
     /\ Buys(response) /\ Buys(response')
     /\ response.userId = response'.userId
     /\ response.user.balance = response'.user.balance
     /\ AtMost(response.amount, response.user.balance)
     /\ AtMost(response'.amount, response.user.balance)
     /\ Less(response.user.balance,
             Fp(response.amount, "+", response'.amount))
     => /\ ~(response.status = 200 /\ response'.status = 200)
        /\ AtMost(Zero, users'[response.userId].balance)]_vars

\* What is left of the funds order o took from its owner's balance when it
\* was placed: amount less filled x price for a LIMIT BUY, nothing for any
\* other order.
Reserved(o) ==
  IF o.type = "BUY" /\ o.orderType = "LIMIT"
  THEN Fp(o.amount, "-", Fp(o.filled, "*", o.price))
  ELSE Zero

\* C28: what CancelOrder or the order refund of ResolveMarket credits for a
\* BUY order never exceeds what the order reserved and has not spent; an
\* OPEN MARKET BUY order, for which nothing was reserved, yields no credit.
C28_RefundWithinReserve ==
  [][AtMost(SumOver([v \in Users |-> Credited(v)], Users),
            SumOver([i \in 1..Len(orders) |-> Reserved(orders[i])],
                    CancelledNow))]_vars

\* The orders of user v.
OrdersOf(v) == {i \in 1..Len(orders) : orders[i].userId = v}

\* All that user v has done since the initial state is the life of one
\* LIMIT BUY order, now closed: placed, filled by MARKET SELL orders, and
\* refunded to v if it was cancelled with something left.
OneLimitBuy(v, i) ==
  /\ OrdersOf(v) = {i}
  /\ orders[i].type = "BUY"
  /\ orders[i].orderType = "LIMIT"
  /\ orders[i].status \in {"FILLED", "CANCELLED"}

\* C29: over the whole life of a LIMIT BUY order the balance of its owner
\* changes by minus the sum of fillAmount x price over its fills: what was
\* reserved at placement pays for the fills and is not charged again.
C29_ReserveSpentOnce ==
  \A v \in Users, i \in 1..Len(orders) :
    OneLimitBuy(v, i)
    => Near(Fp(users[v].balance, "-", SeedBook.users[v].balance),
            LedgerSum(v, {"TRADE"}))

\* C30: applying a BUY impact never lowers and applying a SELL impact never
\* raises the probability of the traded outcome, whatever probability the
\* outcome has reached, sibling redistribution included.
C30_ImpactDirection ==
  [][\A r \in DOMAIN (trades' (-) trades) :
       IF r.type = "BUY"
       THEN AtMost(outcomes[r.outcomeId].probability,
                   outcomes'[r.outcomeId].probability)
       ELSE AtMost(outcomes'[r.outcomeId].probability,
                   outcomes[r.outcomeId].probability)]_vars
====
